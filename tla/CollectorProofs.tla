--------------------------- MODULE CollectorProofs ---------------------------
(* Theorems about Collector: what the JavaScript tracer keeps of a           *)
(* validation and what its parser makes of it, for any length of it.         *)
EXTENDS Collector, FiniteSetTheorems, SequenceTheorems, TLAPS

-----------------------------------------------------------------------------
(* Types                                                                    *)

Address == Entity \cup {EntryPoint, SenderCreator, Token, Ghost}

Ops == Simple \cup ExtOps \cup CallOps \cup StorageOps
         \cup {"KECCAK256", "RETURN", "STOP", "LOG1"}

Operand == Address \cup Slots

Carried == Methods \cup {"0x", "0xcalldata"}

StepType ==
  [depth : Nat \ {0}, op : Ops, on : Operand, self : Address, low : BOOLEAN,
   method : Carried, value : BOOLEAN, who : Address]

LevelType ==
  [target : Address, opcodes : SUBSET Ops, access : SUBSET (Address \X Operand \X StorageOps),
   ext : SUBSET Operand, sizes : SUBSET Operand, oog : BOOLEAN]

Seen == [op : Ops, on : Operand]

CallType == [from : Address, to : Operand, method : Carried, value : BOOLEAN]

ColType ==
  [levels : Seq(LevelType), lastOp : Ops \cup {""}, lastThree : Seq(Seen), stop : BOOLEAN,
   keccak : SUBSET Operand, calls : SUBSET CallType]

-----------------------------------------------------------------------------
(* What the tracer keeps of a history h.                                    *)

\* The steps that run: EntryPoint and the SenderCreator only call and return.
Sound(s) ==
  /\ s \in StepType
  /\ s.low => s.op = "SSTORE"
  /\ s.depth = 1 <=> s.who = EntryPoint
  /\ s.depth > 1 => s.self # EntryPoint
  /\ s.depth = 1 => s.op \in {"CALL", "LOG1", "RETURN"}
  /\ s.who = SenderCreator => s.op \in {"CALL", "RETURN"}
  /\ s.who \in {EntryPoint, SenderCreator} /\ s.op = "CALL" =>
       s.on \in Entity \cup {SenderCreator} /\ ~s.value
  /\ s.who = SenderCreator /\ s.op = "CALL" => s.on = Factory
  /\ s.op \in CallOps /\ s.on = EntryPoint => s.method \in Methods

\* A step is kept at once, but for these two.
Delayed == {"GAS"} \cup ExtOps

Kept(s, lev) ==
  /\ s.who # SenderCreator => lev.target = s.who
  /\ s.low => lev.oog
  /\ s.op \notin Unimportant \cup {"GAS"} => s.op \in lev.opcodes
  /\ s.op \in ExtOps \cup CallOps => s.on \in lev.sizes
  /\ s.op \in StorageOps =>
       \/ <<s.self, s.on, s.op>> \in lev.access
       \/ s.op = "SLOAD" /\ <<s.self, s.on, "SSTORE">> \in lev.access

\* What becomes of a delayed step when next is the one after it.
KeptLater(s, next, lev) ==
  /\ s.op = "GAS" => next.op \in NamedCall \/ "GAS" \in lev.opcodes
  /\ s.op \in ExtOps =>
       \/ s.on \in lev.ext
       \/ next.op = "RETURN"
       \/ s.op = "EXTCODESIZE" /\ next.op = "ISZERO"

KeptAt(h, col, i, k) ==
  /\ Kept(h[i], col.levels[k])
  /\ i < Len(h) => KeptLater(h[i], h[i + 1], col.levels[k])
  /\ i = Len(h) => k = Len(col.levels)

AllKept(h, col) ==
  \A i \in DOMAIN h : h[i].depth > 1 => \E k \in DOMAIN col.levels : KeptAt(h, col, i, k)

\* And nothing is kept that did not run.
Ran(h, e, i) == i \in DOMAIN h /\ h[i].depth > 1 /\ h[i].who = e

Justified(h, lev) ==
  LET e == lev.target IN
  /\ lev.oog => \E i \in DOMAIN h : Ran(h, e, i) /\ h[i].low
  /\ \A o \in lev.opcodes \ {"CALL", "RETURN", "GAS"} :
       \E i \in DOMAIN h : Ran(h, e, i) /\ h[i].op = o
  /\ "GAS" \in lev.opcodes =>
       \E i \in DOMAIN h : /\ Ran(h, e, i) /\ h[i].op = "GAS"
                           /\ i < Len(h) /\ h[i + 1].op \notin NamedCall
  /\ \A x \in lev.access :
       \E i \in DOMAIN h : /\ Ran(h, e, i) /\ h[i].op \in StorageOps
                           /\ <<h[i].self, h[i].on, h[i].op>> = x
  /\ \A a \in lev.sizes \ {Factory} :
       \E i \in DOMAIN h : Ran(h, e, i) /\ h[i].op \in ExtOps \cup CallOps /\ h[i].on = a
  /\ \A a \in lev.ext :
       \E i \in DOMAIN h :
         /\ Ran(h, e, i) /\ h[i].op \in ExtOps /\ h[i].on = a /\ 1 < i /\ i < Len(h)
         /\ h[i - 1].op = "RETURN" \/ ~(h[i].op = "EXTCODESIZE" /\ h[i + 1].op = "ISZERO")

AllJustified(h, col) ==
  \A k \in DOMAIN col.levels : Justified(h, col.levels[k])

CallOf(s) == [from |-> s.self, to |-> s.on, method |-> s.method, value |-> s.value]

CallsKept(h, col) ==
  /\ \A i \in DOMAIN h : h[i].op \in CallOps => CallOf(h[i]) \in col.calls
  /\ \A x \in col.calls : \E i \in DOMAIN h : h[i].op \in CallOps /\ CallOf(h[i]) = x

HashesKept(h, col) ==
  \A a \in Operand : a \in col.keccak <=> \E i \in DOMAIN h : h[i].op = "KECCAK256" /\ h[i].on = a

\* The window holds the last steps, three or those since the last return.
WindowKept(h, col) ==
  LET n == Len(col.lastThree) IN
  /\ n \in 0..3 /\ n <= Len(h)
  /\ \A k \in 1..n : col.lastThree[k] = [op |-> h[Len(h) - n + k].op, on |-> h[Len(h) - n + k].on]
  /\ n < 3 => n = Len(h) \/ h[Len(h) - n].op = "RETURN"

LastKept(h, col) ==
  col.lastOp = "GAS" <=> Len(h) > 0 /\ h[Len(h)].op = "GAS"

Records(h, col) ==
  /\ h \in Seq(StepType) /\ \A i \in DOMAIN h : Sound(h[i])
  /\ Len(h) > 0 => h[1].depth = 1
  /\ col \in ColType
  /\ AllKept(h, col) /\ AllJustified(h, col)
  /\ CallsKept(h, col) /\ HashesKept(h, col) /\ WindowKept(h, col) /\ LastKept(h, col)

-----------------------------------------------------------------------------
(* The frames and the levels.                                               *)

Pending ==
  /\ pending \in Seq(Entities \cup {SenderCreator})
  /\ \A k \in DOMAIN pending :
       /\ pending[k] = SenderCreator => k < Len(pending) /\ pending[k + 1] = Factory
       /\ pending[k] = Factory /\ k > 1 => pending[k - 1] = SenderCreator

Frames ==
  /\ stack \in Seq([code : Address, self : Address]) /\ Len(stack) > 0
  /\ stack[1] = [code |-> EntryPoint, self |-> EntryPoint]
  /\ Len(stack) > 1 => Len(history) > 0 /\ stack[2].code # Token
  /\ \A k \in 2..Len(stack) :
       /\ stack[k].code \in Entities \cup {SenderCreator, Token}
       /\ stack[k].self \in Address \ {EntryPoint}
       /\ stack[k].code = SenderCreator => k = 2

\* The level is that of the entity that runs; between the call of the factory and
\* the SenderCreator's return it is still the factory's.
LevelIs(n, e) ==
  /\ n > 1 => c.levels # <<>>
  /\ n > 1 /\ stack[2].code # SenderCreator => e = stack[2].code
  /\ n > 1 /\ stack[2].code = SenderCreator =>
       /\ n > 2 => e = stack[3].code /\ e = Factory
       /\ n = 2 => e \in {SenderCreator, Factory}
  /\ pending # <<>> /\ pending[1] = Factory <=>
       n = 2 /\ stack[2].code = SenderCreator /\ e = SenderCreator

Validating ==
  /\ ~c.stop
  /\ Pending /\ Frames
  /\ LevelIs(Len(stack), Last(c.levels).target)
  /\ pending = <<>> => c.levels # <<>>
  /\ Len(history) > 0 /\ Last(history).op \in Delayed =>
       Len(stack) > 1 /\ Last(stack).code # SenderCreator /\ Who = Last(history).who

Validated ==
  /\ c.stop /\ c.levels # <<>> /\ Len(history) > 0
  /\ Last(history).op \notin Delayed

CollectorInv ==
  /\ op \in [factory : BOOLEAN, paymaster : BOOLEAN]
  /\ phase \in {"validation", "execution", "over"}
  /\ Records(history, c)
  /\ \A i \in DOMAIN history : history[i].who \in Entities \cup {EntryPoint, SenderCreator}
  /\ phase = "validation" => Validating
  /\ phase # "validation" => Validated

-----------------------------------------------------------------------------
(* The addresses and the opcodes.                                           *)

LEMMA Distinct ==
  /\ SenderCreator # EntryPoint
  /\ Sender \notin {EntryPoint, SenderCreator}
  /\ Factory \notin {EntryPoint, SenderCreator, Sender}
  /\ Paymaster \notin {EntryPoint, SenderCreator, Sender, Factory}
  /\ Token \notin {EntryPoint, SenderCreator, Sender, Factory, Paymaster}
  /\ Ghost \notin {EntryPoint, SenderCreator, Sender, Factory, Paymaster, Token}
<1> DEFINE S1 == {EntryPoint}
           S2 == S1 \cup {SenderCreator}
           S3 == S2 \cup {Sender}
           S4 == S3 \cup {Factory}
           S5 == S4 \cup {Paymaster}
           S6 == S5 \cup {Token}
           S7 == S6 \cup {Ghost}
<1>1. S7 = {EntryPoint, SenderCreator, Sender, Factory, Paymaster, Token, Ghost}
  OBVIOUS
<1>2. Cardinality(S7) = 7
  BY <1>1, CollectorAssumption DEF CollectorAssumption
<1>3. IsFiniteSet(S1) /\ Cardinality(S1) = 1
  BY FS_Singleton
<1> HIDE DEF S1
<1>4. /\ IsFiniteSet(S2)
      /\ Cardinality(S2) = IF SenderCreator \in S1 THEN Cardinality(S1) ELSE Cardinality(S1) + 1
  BY <1>3, FS_AddElement
<1> HIDE DEF S2
<1>5. /\ IsFiniteSet(S3)
      /\ Cardinality(S3) = IF Sender \in S2 THEN Cardinality(S2) ELSE Cardinality(S2) + 1
  BY <1>4, FS_AddElement
<1> HIDE DEF S3
<1>6. /\ IsFiniteSet(S4)
      /\ Cardinality(S4) = IF Factory \in S3 THEN Cardinality(S3) ELSE Cardinality(S3) + 1
  BY <1>5, FS_AddElement
<1> HIDE DEF S4
<1>7. /\ IsFiniteSet(S5)
      /\ Cardinality(S5) = IF Paymaster \in S4 THEN Cardinality(S4) ELSE Cardinality(S4) + 1
  BY <1>6, FS_AddElement
<1> HIDE DEF S5
<1>8. /\ IsFiniteSet(S6)
      /\ Cardinality(S6) = IF Token \in S5 THEN Cardinality(S5) ELSE Cardinality(S5) + 1
  BY <1>7, FS_AddElement
<1> HIDE DEF S6
<1>9. Cardinality(S7) = IF Ghost \in S6 THEN Cardinality(S6) ELSE Cardinality(S6) + 1
  BY <1>8, FS_AddElement
<1> HIDE DEF S7
<1>10. /\ SenderCreator \notin S1 /\ Sender \notin S2 /\ Factory \notin S3 /\ Paymaster \notin S4
       /\ Token \notin S5 /\ Ghost \notin S6
  BY <1>2, <1>3, <1>4, <1>5, <1>6, <1>7, <1>8, <1>9
<1> QED
  BY <1>10 DEF S1, S2, S3, S4, S5, S6

\* What an opcode without an operand is not.
LEMMA SimpleOps ==
  ASSUME NEW o \in Simple
  PROVE  /\ o \in Ops /\ o \notin ExtOps \cup CallOps \cup StorageOps
         /\ o \notin {"KECCAK256", "RETURN", "REVERT", "STOP"}
BY CollectorAssumption DEF CollectorAssumption, Ops

-----------------------------------------------------------------------------
(* What a step adds.                                                        *)

\* Its level, as the step leaves it.
Grown(lev, col, s) ==
  [target  |-> lev.target,
   opcodes |-> lev.opcodes \cup Counted(col, s),
   access  |-> lev.access \cup Accessed(lev, s),
   ext     |-> lev.ext \cup ExtTouched(Window(col, s)),
   sizes   |-> lev.sizes \cup Sized(lev, s),
   oog     |-> lev.oog \/ s.low]

Levels(col, s) == IF StartsLevel(col, s) THEN Append(col.levels, Level(s.on)) ELSE col.levels

\* The window's type, and what is in it.
Slides(old, s, w) ==
  /\ w \in Seq(Seen) /\ Len(w) \in 0..3
  /\ s.op \in {"RETURN", "REVERT"} => Len(w) = 0
  /\ s.op \notin {"RETURN", "REVERT"} =>
       /\ Len(w) = IF Len(old) = 3 THEN 3 ELSE Len(old) + 1
       /\ w[Len(w)] = [op |-> s.op, on |-> s.on]
       /\ \A k \in 1..(Len(w) - 1) : w[k] = old[IF Len(old) = 3 THEN k + 1 ELSE k]

LEMMA WindowIs ==
  ASSUME NEW col \in ColType, NEW s \in StepType, Len(col.lastThree) \in 0..3
  PROVE  Slides(col.lastThree, s, Window(col, s))
<1> DEFINE old == col.lastThree
           x == [op |-> s.op, on |-> s.on]
           w == Append(old, x)
<1>1. old \in Seq(Seen) /\ x \in Seen
  BY DEF ColType, StepType, Seen
<1>2. /\ w \in Seq(Seen) /\ Len(w) = Len(old) + 1 /\ w[Len(w)] = x
      /\ \A k \in 1..Len(old) : w[k] = old[k]
  BY <1>1
<1>3. /\ Tail(w) \in Seq(Seen) /\ Len(Tail(w)) = Len(old)
      /\ \A k \in 1..Len(old) : Tail(w)[k] = w[k + 1]
  <2> HIDE DEF w
  <2>1. w # <<>> /\ Len(old) \in Nat
    BY <1>1, <1>2
  <2>2. /\ Tail(w) \in Seq(Seen) /\ Len(Tail(w)) = Len(w) - 1
        /\ \A k \in 1..Len(Tail(w)) : Tail(w)[k] = w[k + 1]
    BY <1>2, <2>1, HeadTailProperties
  <2> QED
    BY <1>2, <2>1, <2>2
<1>4. Window(col, s) = IF s.op \in {"RETURN", "REVERT"} THEN <<>>
                       ELSE IF Len(w) > 3 THEN Tail(w) ELSE w
  BY DEF Window
<1> HIDE DEF w, x, old
<1>5. CASE s.op \in {"RETURN", "REVERT"}
  <2>1. Window(col, s) = <<>>
    BY <1>4, <1>5
  <2> QED
    BY <1>5, <2>1, EmptySeq DEF Slides
<1>6. CASE s.op \notin {"RETURN", "REVERT"}
  <2> DEFINE n == Len(old)
             v == Window(col, s)
             Is == /\ v \in Seq(Seen) /\ Len(v) = (IF n = 3 THEN 3 ELSE n + 1) /\ v[Len(v)] = x
                   /\ \A k \in 1..(Len(v) - 1) : v[k] = old[IF n = 3 THEN k + 1 ELSE k]
  <2>1. n \in 0..3
    BY DEF old
  <2>2. ASSUME n = 3 PROVE Is
    <3>1. v = Tail(w)
      BY <1>2, <1>4, <1>6, <2>2
    <3> HIDE DEF v
    <3>2. Len(v) = 3 /\ v \in Seq(Seen) /\ v[3] = w[4] /\ w[4] = x
      <4>1. Len(old) = 3
        BY <2>2
      <4>2. 3 \in 1..Len(old) /\ 3 + 1 = 4 /\ Len(w) = 4
        BY <1>2, <4>1
      <4>3. Tail(w)[3] = w[4] /\ w[4] = x
        BY <1>2, <1>3, <4>2
      <4> QED
        BY <1>3, <3>1, <4>1, <4>3
    <3>3. ASSUME NEW k \in 1..2 PROVE v[k] = old[k + 1]
      <4>1. k \in 1..Len(old) /\ k + 1 \in 1..Len(old)
        BY <2>2
      <4>2. v[k] = w[k + 1] /\ w[k + 1] = old[k + 1]
        BY <1>2, <1>3, <3>1, <4>1
      <4> QED
        BY <4>2
    <3> QED
      BY <2>2, <3>2, <3>3
  <2>3. ASSUME n # 3 PROVE Is
    <3>1. v = w
      <4> DEFINE k == Len(w)
      <4>1. k = n + 1
        BY <1>2
      <4> HIDE DEF k, n
      <4>2. (k > 3) = FALSE
        BY <2>1, <2>3, <4>1
      <4> QED
        BY <1>4, <1>6, <4>2 DEF k
    <3> HIDE DEF v
    <3> QED
      BY <1>2, <2>1, <2>3, <3>1
  <2>4. Is
    BY <2>2, <2>3
  <2>5. Len(v) \in 0..3
    BY <2>1, <2>4
  <2> HIDE DEF v
  <2> QED
    BY <1>6, <2>4, <2>5 DEF v, old, x, Slides
<1> QED
  BY <1>5, <1>6

LEMMA GrownType ==
  ASSUME NEW col \in ColType, NEW s \in StepType, Len(col.lastThree) \in 0..3,
         NEW lev \in LevelType
  PROVE  Grown(lev, col, s) \in LevelType
<1>1. s.on \in Operand /\ s.op \in Ops /\ s.self \in Address /\ s.low \in BOOLEAN
  BY DEF StepType
<1>2. Counted(col, s) \subseteq Ops
  BY <1>1 DEF Counted, ColType
<1>3. Accessed(lev, s) \subseteq Address \X Operand \X StorageOps
  BY <1>1 DEF Accessed
<1>4. ExtTouched(Window(col, s)) \subseteq Operand
  <2> DEFINE w == Window(col, s)
  <2>1. w \in Seq(Seen) /\ Len(w) \in 0..3
    BY WindowIs DEF Slides
  <2> HIDE DEF w
  <2>2. \A k \in 1..Len(w) : w[k].on \in Operand
    <3>1. \A k \in 1..Len(w) : w[k] \in Seen
      BY <2>1, ElementOfSeq
    <3> QED
      BY <3>1 DEF Seen
  <2>3. Len(w) >= 2 => Len(w) - 1 \in 1..Len(w)
    BY <2>1
  <2>4. ExtTouched(w) \subseteq Operand
    BY <2>2, <2>3 DEF ExtTouched
  <2> QED
    BY <2>4 DEF w
<1>5. Sized(lev, s) \subseteq Operand
  BY <1>1 DEF Sized
<1> QED
  BY <1>1, <1>2, <1>3, <1>4, <1>5 DEF Grown, LevelType

LEMMA LevelsType ==
  ASSUME NEW col \in ColType, NEW s \in StepType,
         StartsLevel(col, s) => s.on \in Address
  PROVE  LET ls == Levels(col, s)
         IN  /\ ls \in Seq(LevelType)
             /\ Len(ls) = IF StartsLevel(col, s) THEN Len(col.levels) + 1 ELSE Len(col.levels)
             /\ \A k \in 1..Len(col.levels) : ls[k] = col.levels[k]
             /\ StartsLevel(col, s) => ls[Len(ls)] = Level(s.on)
<1>1. col.levels \in Seq(LevelType)
  BY DEF ColType
<1>2. StartsLevel(col, s) => Level(s.on) \in LevelType
  BY DEF Level, LevelType
<1> QED
  BY <1>1, <1>2 DEF Levels

\* Records that are changed field by field.
Grow(lev, p, q, r, u) ==
  [lev EXCEPT !.ext = @ \cup p, !.sizes = @ \cup q, !.opcodes = @ \cup r, !.access = @ \cup u]

LEMMA GrowLevel ==
  ASSUME NEW lev \in LevelType, NEW p, NEW q, NEW r, NEW u
  PROVE  Grow(lev, p, q, r, u) =
           [target |-> lev.target, opcodes |-> lev.opcodes \cup r, access |-> lev.access \cup u,
            ext |-> lev.ext \cup p, sizes |-> lev.sizes \cup q, oog |-> lev.oog]
<1> DEFINE Like(e, z, o) == [target : {lev.target}, opcodes : {o}, access : {lev.access},
                             ext : {e}, sizes : {z}, oog : {lev.oog}]
           l1 == [lev EXCEPT !.ext = @ \cup p]
           l2 == [l1 EXCEPT !.sizes = @ \cup q]
           l3 == [l2 EXCEPT !.opcodes = @ \cup r]
           l4 == [l3 EXCEPT !.access = @ \cup u]
<1>1. Grow(lev, p, q, r, u) = l4
  BY DEF Grow
<1>2. l1 \in Like(lev.ext \cup p, lev.sizes, lev.opcodes)
  BY DEF LevelType
<1> HIDE DEF l1
<1>3. l2 \in Like(lev.ext \cup p, lev.sizes \cup q, lev.opcodes)
  BY <1>2
<1> HIDE DEF l2
<1>4. l3 \in Like(lev.ext \cup p, lev.sizes \cup q, lev.opcodes \cup r)
  BY <1>3
<1> HIDE DEF l3
<1>5. l4 = [target |-> lev.target, opcodes |-> lev.opcodes \cup r, access |-> lev.access \cup u,
            ext |-> lev.ext \cup p, sizes |-> lev.sizes \cup q, oog |-> lev.oog]
  <2>1. l4 = [target |-> l3.target, opcodes |-> l3.opcodes, access |-> l3.access \cup u,
              ext |-> l3.ext, sizes |-> l3.sizes, oog |-> l3.oog]
    BY <1>4
  <2>2. /\ l3.target = lev.target /\ l3.opcodes = lev.opcodes \cup r /\ l3.access = lev.access
        /\ l3.ext = lev.ext \cup p /\ l3.sizes = lev.sizes \cup q /\ l3.oog = lev.oog
    BY <1>4
  <2> HIDE DEF l4
  <2> QED
    BY <2>1, <2>2
<1> QED
  BY <1>1, <1>5

LEMMA GrowColumn ==
  ASSUME NEW ls, NEW o, NEW w, NEW k, NEW x, NEW n, NEW lev, NEW op1, NEW h
  PROVE  LET r == [levels |-> ls, lastOp |-> o, lastThree |-> w, stop |-> FALSE,
                   keccak |-> k, calls |-> x]
             u == [r EXCEPT !.levels[n] = lev]
         IN  [u EXCEPT !.lastOp = op1, !.keccak = h] =
               [levels |-> [ls EXCEPT ![n] = lev], lastOp |-> op1, lastThree |-> w,
                stop |-> FALSE, keccak |-> h, calls |-> x]
<1> DEFINE Like(l, q) == [levels : {l}, lastOp : {q}, lastThree : {w}, stop : {FALSE},
                          keccak : {k}, calls : {x}]
           r == [levels |-> ls, lastOp |-> o, lastThree |-> w, stop |-> FALSE,
                 keccak |-> k, calls |-> x]
           u == [r EXCEPT !.levels[n] = lev]
           v == [u EXCEPT !.lastOp = op1]
           z == [v EXCEPT !.keccak = h]
<1>1. [u EXCEPT !.lastOp = op1, !.keccak = h] = z
  OBVIOUS
<1>2. r \in Like(ls, o)
  OBVIOUS
<1> HIDE DEF r
<1>3. u \in Like([ls EXCEPT ![n] = lev], o)
  BY <1>2
<1> HIDE DEF u
<1>4. v \in Like([ls EXCEPT ![n] = lev], op1)
  BY <1>3
<1> HIDE DEF v
<1>5. z = [levels |-> [ls EXCEPT ![n] = lev], lastOp |-> op1, lastThree |-> w,
           stop |-> FALSE, keccak |-> h, calls |-> x]
  <2>1. z = [levels |-> v.levels, lastOp |-> v.lastOp, lastThree |-> v.lastThree,
             stop |-> v.stop, keccak |-> h, calls |-> v.calls]
    BY <1>4
  <2>2. /\ v.levels = [ls EXCEPT ![n] = lev] /\ v.lastOp = op1 /\ v.lastThree = w
        /\ v.stop = FALSE /\ v.calls = x
    BY <1>4
  <2> HIDE DEF z
  <2> QED
    BY <2>1, <2>2
<1> QED
  BY <1>1, <1>5 DEF u, r

\* What the tracer makes of a step, field by field.
Collects(col, s, d) ==
  LET ls == Levels(col, s)
      n == Len(ls)
  IN  /\ d \in ColType
      /\ d.levels = IF s.depth = 1 THEN ls ELSE [ls EXCEPT ![n] = Grown(ls[n], col, s)]
      /\ d.lastOp = IF s.depth = 1 THEN "" ELSE s.op
      /\ d.lastThree = Window(col, s)
      /\ d.stop = Stops(col, s)
      /\ d.keccak = IF s.depth # 1 /\ s.op = "KECCAK256" THEN col.keccak \cup {s.on}
                    ELSE col.keccak
      /\ d.calls = IF s.op \in CallOps THEN col.calls \cup {CallOf(s)} ELSE col.calls

LEMMA CollectIs ==
  ASSUME NEW col \in ColType, NEW s \in StepType, ~col.stop, Len(col.lastThree) \in 0..3,
         StartsLevel(col, s) => s.on \in Address,
         s.depth > 1 => Len(col.levels) > 0,
         s.low => s.depth > 1 /\ s.op = "SSTORE"
  PROVE  Collects(col, s, Collect(col, s))
<1> DEFINE ls == Levels(col, s)
           n == Len(ls)
           w == Window(col, s)
           starved == Starved(col, s)
           seen == [starved EXCEPT !.lastThree = w]
           split == IF StartsLevel(col, s)
                    THEN [seen EXCEPT !.levels = Append(@, Level(s.on))] ELSE seen
           low == [Last(col.levels) EXCEPT !.oog = TRUE]
           base == IF s.low THEN [col.levels EXCEPT ![Len(col.levels)] = low] ELSE ls
           top == [split EXCEPT !.lastOp = "", !.stop = Stops(col, s)]
           done == IF s.depth = 1 THEN top ELSE Record(split, s)
           d == Collect(col, s)
<1>1. /\ ls \in Seq(LevelType) /\ n \in Nat /\ (s.depth > 1 => n > 0)
      /\ s.low => ls = col.levels /\ ~StartsLevel(col, s)
  <2>1. ls \in Seq(LevelType) /\ n = IF StartsLevel(col, s) THEN Len(col.levels) + 1 ELSE Len(col.levels)
    BY LevelsType
  <2>2. Len(col.levels) \in Nat
    <3>1. col.levels \in Seq(LevelType)
      BY DEF ColType
    <3> QED
      BY <3>1, LenProperties
  <2>3. s.low => ~StartsLevel(col, s)
    BY DEF StartsLevel
  <2> QED
    BY <2>1, <2>2, <2>3 DEF Levels
<1>2. w \in Seq(Seen)
  BY WindowIs DEF Slides
<1>3. split = [col EXCEPT !.levels = base, !.lastThree = w]
  <2>1. CASE s.low
    BY <1>1, <2>1 DEF Starved, OnLevel, ColType
  <2>2. CASE ~s.low
    BY <2>2 DEF Starved, Levels, ColType
  <2> QED
    BY <2>1, <2>2
<1>4. base \in Seq(LevelType) /\ Len(base) = n
  <2>1. CASE s.low
    <3>1. col.levels \in Seq(LevelType) /\ Len(col.levels) \in 1..Len(col.levels)
      BY <2>1, <1>1
    <3>2. Last(col.levels) \in LevelType
      BY <3>1 DEF Last
    <3>3. low \in LevelType
      BY <3>2 DEF LevelType
    <3> HIDE DEF low
    <3> QED
      BY <1>1, <2>1, <3>1, <3>3, ExceptSeq
  <2>2. CASE ~s.low
    BY <1>1, <2>2
  <2> QED
    BY <2>1, <2>2
<1>5. s.op \in Ops /\ s.on \in Operand /\ s.self \in Address /\ s.method \in Carried
      /\ s.value \in BOOLEAN /\ s.low \in BOOLEAN /\ s.depth \in Nat /\ s.depth >= 1
  BY DEF StepType
<1>6. split = [levels |-> base, lastOp |-> col.lastOp, lastThree |-> w, stop |-> FALSE,
               keccak |-> col.keccak, calls |-> col.calls]
  BY <1>3 DEF ColType
<1> DEFINE g == Grown(ls[n], col, s)
           kept == IF s.depth = 1 THEN ls ELSE [ls EXCEPT ![n] = g]
           last == IF s.depth = 1 THEN "" ELSE s.op
           hashes == IF s.depth # 1 /\ s.op = "KECCAK256" THEN col.keccak \cup {s.on}
                     ELSE col.keccak
           calls == IF s.op \in CallOps THEN col.calls \cup {CallOf(s)} ELSE col.calls
<1>7. done = [levels |-> kept, lastOp |-> last, lastThree |-> w, stop |-> Stops(col, s),
              keccak |-> hashes, calls |-> col.calls]
  <2>1. CASE s.depth = 1
    <3>1. base = ls
      BY <2>1
    <3> HIDE DEF base, ls, w, split
    <3> QED
      BY <1>6, <2>1, <3>1
  <2>2. CASE s.depth # 1
    <3>1. n \in 1..n /\ Len(base) = n /\ ls[n] \in LevelType
      BY <1>1, <1>4, <1>5, <2>2
    <3> DEFINE lev == base[n]
               new == [lev EXCEPT !.ext = @ \cup ExtTouched(w),
                                  !.sizes = @ \cup Sized(lev, s),
                                  !.opcodes = @ \cup Counted(split, s),
                                  !.access = @ \cup Accessed(lev, s)]
    <3>2. lev = [ls[n] EXCEPT !.oog = @ \/ s.low]
      <4>1. CASE s.low
        <5>1. ls = col.levels /\ Last(col.levels) = ls[n] /\ base = [ls EXCEPT ![n] = low]
          BY <1>1, <4>1 DEF Last
        <5>2. lev = low /\ low = [ls[n] EXCEPT !.oog = TRUE]
          <6> HIDE DEF low, ls
          <6>1. lev = low
            BY <1>1, <3>1, <5>1
          <6> QED
            BY <5>1, <6>1 DEF low
        <5> HIDE DEF ls
        <5> QED
          BY <3>1, <4>1, <5>2 DEF LevelType
      <4>2. CASE ~s.low
        <5>1. lev = ls[n]
          BY <4>2
        <5> HIDE DEF ls
        <5> QED
          BY <1>5, <3>1, <4>2, <5>1 DEF LevelType
      <4> QED
        BY <4>1, <4>2
    <3>3. Record(split, s) = [levels |-> [base EXCEPT ![n] = new], lastOp |-> s.op,
                              lastThree |-> w, stop |-> FALSE, keccak |-> hashes,
                              calls |-> col.calls]
      <4>1. Last(split.levels) = lev /\ split.lastThree = w /\ Len(split.levels) = n
        BY <1>6, <3>1 DEF Last
      <4>2. Record(split, s) =
              [[split EXCEPT !.levels[n] = new]
                 EXCEPT !.lastOp = s.op,
                        !.keccak = IF s.op = "KECCAK256" THEN @ \cup {s.on} ELSE @]
        <5> HIDE DEF split, base, w
        <5> QED
          BY <4>1 DEF Record, OnLevel
      <4>3. Record(split, s) =
              [[split EXCEPT !.levels[n] = new] EXCEPT !.lastOp = s.op, !.keccak = hashes]
        <5> HIDE DEF base, w, new
        <5> QED
          BY <1>6, <2>2, <4>2
      <4> HIDE DEF base, ls, w, new, split, hashes
      <4> QED
        BY <1>6, <4>3, GrowColumn
    <3>4. new = g
      <4>1. Counted(split, s) = Counted(col, s)
        BY <1>6 DEF Counted
      <4>2. Sized(lev, s) = Sized(ls[n], s) /\ lev.access = ls[n].access
        BY <3>1, <3>2 DEF Sized, LevelType
      <4>3. Accessed(lev, s) = Accessed(ls[n], s)
        BY <4>2 DEF Accessed
      <4> DEFINE old == ls[n]
      <4>4. lev \in LevelType
        BY <1>4, <3>1, ElementOfSeq
      <4> HIDE DEF lev, ls, split, w
      <4>5. new = [target |-> lev.target, opcodes |-> lev.opcodes \cup Counted(split, s),
                   access |-> lev.access \cup Accessed(lev, s),
                   ext |-> lev.ext \cup ExtTouched(w), sizes |-> lev.sizes \cup Sized(lev, s),
                   oog |-> lev.oog]
        <5>1. new = Grow(lev, ExtTouched(w), Sized(lev, s), Counted(split, s), Accessed(lev, s))
          BY DEF Grow
        <5> HIDE DEF new
        <5> QED
          BY <4>4, <5>1, GrowLevel
      <4>6. /\ lev.target = old.target /\ lev.opcodes = old.opcodes /\ lev.access = old.access
            /\ lev.ext = old.ext /\ lev.sizes = old.sizes /\ lev.oog = (old.oog \/ s.low)
        BY <3>1, <3>2 DEF LevelType
      <4> HIDE DEF new, old
      <4>7. new = [target |-> old.target, opcodes |-> old.opcodes \cup Counted(col, s),
                   access |-> old.access \cup Accessed(old, s),
                   ext |-> old.ext \cup ExtTouched(w), sizes |-> old.sizes \cup Sized(old, s),
                   oog |-> old.oog \/ s.low]
        BY <4>1, <4>2, <4>3, <4>5, <4>6 DEF old
      <4> QED
        BY <4>7 DEF Grown, old, w
    <3>5. [base EXCEPT ![n] = g] = [ls EXCEPT ![n] = g]
      <4>1. CASE s.low
        BY <1>1, <3>1, <4>1
      <4>2. CASE ~s.low
        BY <4>2
      <4> QED
        BY <4>1, <4>2
    <3>6. Stops(col, s) = FALSE
      BY <2>2 DEF Stops
    <3> HIDE DEF base, ls, w, g, new, split, hashes
    <3> QED
      BY <2>2, <3>3, <3>4, <3>5, <3>6
  <2> QED
    BY <2>1, <2>2
<1>8. d = Enter(done, s)
  BY DEF Collect
<1>9. d = [levels |-> kept, lastOp |-> last, lastThree |-> w, stop |-> Stops(col, s),
           keccak |-> hashes, calls |-> calls]
  <2>1. s.op \in CallOps => ~Stops(col, s)
    BY DEF Stops, CallOps
  <2>2. d = IF s.op \in CallOps
            THEN [done EXCEPT !.calls = @ \cup {CallOf(s)}] ELSE done
    <3> HIDE DEF done, d
    <3>1. done.stop = Stops(col, s)
      BY <1>7
    <3> QED
      BY <1>8, <2>1, <3>1 DEF Enter, CallOf
  <2> HIDE DEF d, done, kept, last, w, hashes
  <2> QED
    BY <1>7, <2>2
<1>10. d \in ColType
  <2>1. kept \in Seq(LevelType)
    <3>1. CASE s.depth = 1
      BY <1>1, <3>1
    <3>2. CASE s.depth # 1
      <4>1. n \in 1..n /\ ls[n] \in LevelType
        BY <1>1, <1>5, <3>2
      <4>2. g \in LevelType
        BY <4>1, GrownType
      <4> HIDE DEF g, ls
      <4> QED
        BY <1>1, <3>2, <4>1, <4>2, ExceptSeq
    <3> QED
      BY <3>1, <3>2
  <2>2. last \in Ops \cup {""} /\ hashes \subseteq Operand
    <3>1. col.keccak \subseteq Operand
      BY DEF ColType
    <3> QED
      BY <1>5, <3>1
  <2>3. calls \subseteq CallType
    <3>1. CallOf(s) \in CallType
      BY <1>5 DEF CallOf, CallType
    <3>2. col.calls \subseteq CallType
      BY DEF ColType
    <3> QED
      BY <3>1, <3>2
  <2>4. Stops(col, s) \in BOOLEAN
    BY DEF Stops
  <2> HIDE DEF d, kept, last, w, hashes, calls
  <2> QED
    BY <1>2, <1>9, <2>1, <2>2, <2>3, <2>4 DEF ColType
<1>11. /\ d.levels = kept /\ d.lastOp = last /\ d.lastThree = w /\ d.stop = Stops(col, s)
       /\ d.keccak = hashes /\ d.calls = calls
  <2> HIDE DEF d, kept, last, w, hashes, calls
  <2> QED
    BY <1>9
<1> QED
  BY <1>10, <1>11 DEF Collects

-----------------------------------------------------------------------------
(* One step more.                                                           *)

\* What a step s after the history h has to do with it.
Fits(h, col, s) ==
  /\ Sound(s)
  /\ StartsLevel(col, s) => s.on \in Address
  /\ s.depth > 1 => Len(h) > 0 /\ Len(col.levels) > 0
  /\ s.depth > 1 /\ s.who # SenderCreator =>
       ~StartsLevel(col, s) /\ col.levels[Len(col.levels)].target = s.who
  /\ Len(h) > 0 /\ h[Len(h)].op \in Delayed =>
       s.depth > 1 /\ s.who = h[Len(h)].who /\ s.who # SenderCreator

LEMMA AppendIs ==
  ASSUME NEW h, NEW col, NEW s, Records(h, col), Fits(h, col, s)
  PROVE  LET H == Append(h, s)
         IN  /\ H \in Seq(StepType) /\ Len(H) = Len(h) + 1 /\ Len(h) \in Nat
             /\ DOMAIN H = 1..(Len(h) + 1) /\ DOMAIN h = 1..Len(h)
             /\ H[Len(h) + 1] = s /\ \A i \in 1..Len(h) : H[i] = h[i]
             /\ \A i \in DOMAIN H : Sound(H[i])
<1>1. h \in Seq(StepType) /\ \A i \in DOMAIN h : Sound(h[i])
  BY DEF Records
<1>2. s \in StepType /\ Sound(s)
  BY DEF Fits, Sound
<1> DEFINE H == Append(h, s)
<1>3. /\ H \in Seq(StepType) /\ Len(H) = Len(h) + 1 /\ Len(h) \in Nat
      /\ DOMAIN H = 1..(Len(h) + 1) /\ DOMAIN h = 1..Len(h)
      /\ H[Len(h) + 1] = s /\ \A i \in 1..Len(h) : H[i] = h[i]
  BY <1>1, <1>2
<1> HIDE DEF H
<1>4. \A i \in DOMAIN H : Sound(H[i])
  BY <1>1, <1>2, <1>3
<1> QED
  BY <1>3, <1>4 DEF H

\* CollectIs, for a step that fits.
LEMMA CollectFits ==
  ASSUME NEW h, NEW col, NEW s, Records(h, col), Fits(h, col, s), ~col.stop
  PROVE  /\ col \in ColType /\ s \in StepType /\ Len(col.lastThree) \in 0..3
         /\ Collects(col, s, Collect(col, s))
<1>1. col \in ColType /\ s \in StepType /\ Len(col.lastThree) \in 0..3
  BY DEF Records, WindowKept, Fits, Sound
<1>2. s.low => s.depth > 1 /\ s.op = "SSTORE"
  <2>1. s.depth \in Nat \ {0}
    BY <1>1 DEF StepType
  <2> QED
    BY <2>1 DEF Fits, Sound
<1>3. /\ StartsLevel(col, s) => s.on \in Address
      /\ s.depth > 1 => Len(col.levels) > 0
  BY DEF Fits
<1> QED
  BY <1>1, <1>2, <1>3, CollectIs

\* The levels, one by one.
LEMMA LevelsAfter ==
  ASSUME NEW h, NEW col, NEW s, Records(h, col), Fits(h, col, s), ~col.stop
  PROVE  LET d == Collect(col, s)
             m == Len(col.levels)
             n == Len(Levels(col, s))
         IN  /\ m \in Nat /\ n \in Nat /\ Len(d.levels) = n /\ DOMAIN d.levels = 1..n
             /\ DOMAIN col.levels = 1..m
             /\ n = IF StartsLevel(col, s) THEN m + 1 ELSE m
             /\ s.depth > 1 => n > 0
             /\ \A k \in 1..m : k < n \/ s.depth = 1 => d.levels[k] = col.levels[k]
             /\ StartsLevel(col, s) /\ s.depth = 1 => d.levels[n] = Level(s.on)
             /\ StartsLevel(col, s) /\ s.depth # 1 =>
                  d.levels[n] = Grown(Level(s.on), col, s)
             /\ ~StartsLevel(col, s) /\ s.depth # 1 =>
                  d.levels[n] = Grown(col.levels[m], col, s)
<1> DEFINE d == Collect(col, s)
           ls == Levels(col, s)
           m == Len(col.levels)
           n == Len(ls)
<1>1. /\ col \in ColType /\ s \in StepType /\ d \in ColType /\ Len(col.lastThree) \in 0..3
      /\ d.levels = IF s.depth = 1 THEN ls ELSE [ls EXCEPT ![n] = Grown(ls[n], col, s)]
  <2>1. col \in ColType /\ s \in StepType /\ Len(col.lastThree) \in 0..3 /\ Collects(col, s, d)
    BY CollectFits
  <2> HIDE DEF d
  <2> QED
    BY <2>1 DEF Collects
<1>2. /\ ls \in Seq(LevelType)
      /\ n = IF StartsLevel(col, s) THEN m + 1 ELSE m
      /\ \A k \in 1..m : ls[k] = col.levels[k]
      /\ StartsLevel(col, s) => ls[n] = Level(s.on)
  BY <1>1, LevelsType DEF Fits
<1>3. m \in Nat /\ n \in Nat /\ DOMAIN col.levels = 1..m
  <2>1. col.levels \in Seq(LevelType)
    BY <1>1 DEF ColType
  <2> QED
    BY <2>1, <1>2, LenProperties
<1>4. s.depth > 1 => n > 0
  BY <1>2, <1>3 DEF Fits
<1>5. s.depth \in Nat /\ s.depth >= 1
  BY <1>1 DEF StepType
<1> HIDE DEF d, ls
<1>6. CASE s.depth = 1
  <2>1. d.levels = ls
    BY <1>1, <1>6
  <2> QED
    BY <1>2, <1>3, <1>6, <2>1, LenProperties DEF d, ls
<1>7. CASE s.depth # 1
  <2>1. n \in 1..n /\ ls[n] \in LevelType
    BY <1>2, <1>3, <1>4, <1>5, <1>7, ElementOfSeq
  <2>2. Grown(ls[n], col, s) \in LevelType
    BY <1>1, <2>1, GrownType
  <2>3. /\ d.levels \in Seq(LevelType) /\ Len(d.levels) = n
        /\ \A k \in 1..n : d.levels[k] = IF k = n THEN Grown(ls[n], col, s) ELSE ls[k]
    BY <1>1, <1>2, <1>7, <2>1, <2>2, ExceptSeq
  <2>4. DOMAIN d.levels = 1..n
    BY <2>3, LenProperties
  <2>5. ~StartsLevel(col, s) => ls[n] = col.levels[m]
    BY <1>2, <2>1
  <2>6. \A k \in 1..m : k < n => d.levels[k] = col.levels[k]
    BY <1>2, <1>3, <2>3
  <2> QED
    BY <1>2, <1>3, <1>4, <1>7, <2>1, <2>3, <2>4, <2>5, <2>6 DEF d, ls
<1> QED
  BY <1>6, <1>7

LEMMA WindowStays ==
  ASSUME NEW h, NEW col, NEW s, Records(h, col), Fits(h, col, s), ~col.stop
  PROVE  WindowKept(Append(h, s), Collect(col, s))
<1> DEFINE H == Append(h, s)
           L == Len(h)
           old == col.lastThree
           w == Window(col, s)
           n == Len(old)
           N == Len(w)
<1>1. /\ Len(H) = L + 1 /\ L \in Nat /\ H[L + 1] = s /\ \A i \in 1..L : H[i] = h[i]
  BY AppendIs
<1>2. /\ n \in 0..3 /\ n <= L
      /\ \A k \in 1..n : old[k] = [op |-> h[L - n + k].op, on |-> h[L - n + k].on]
      /\ n < 3 => n = L \/ h[L - n].op = "RETURN"
  BY DEF Records, WindowKept
<1>3. /\ N \in 0..3
      /\ s.op \in {"RETURN", "REVERT"} => N = 0
      /\ s.op \notin {"RETURN", "REVERT"} =>
           /\ N = IF n = 3 THEN 3 ELSE n + 1
           /\ w[N] = [op |-> s.op, on |-> s.on]
           /\ \A k \in 1..(N - 1) : w[k] = old[IF n = 3 THEN k + 1 ELSE k]
  <2>1. col \in ColType /\ s \in StepType /\ Len(col.lastThree) \in 0..3
    BY CollectFits
  <2>2. Slides(old, s, w)
    BY <2>1, WindowIs
  <2> HIDE DEF w, old
  <2> QED
    BY <2>2 DEF Slides
<1>4. Collect(col, s).lastThree = w
  <2>1. Collects(col, s, Collect(col, s))
    BY CollectFits
  <2> QED
    BY <2>1 DEF Collects
<1>5. s.op # "REVERT"
  <2>1. s.op \in Ops
    BY CollectFits DEF StepType
  <2> QED
    BY <2>1, SimpleOps DEF Ops, ExtOps, CallOps, StorageOps
<1> HIDE DEF H, w, n
<1>6. ASSUME s.op = "RETURN" PROVE WindowKept(H, Collect(col, s))
  BY <1>1, <1>3, <1>4, <1>6 DEF WindowKept
<1>7. ASSUME s.op # "RETURN" PROVE WindowKept(H, Collect(col, s))
  <2>1. /\ N = IF n = 3 THEN 3 ELSE n + 1
        /\ w[N] = [op |-> s.op, on |-> s.on]
        /\ \A k \in 1..(N - 1) : w[k] = old[IF n = 3 THEN k + 1 ELSE k]
    BY <1>3, <1>5, <1>7
  <2>2. N \in 1..3 /\ N <= L + 1
    BY <1>1, <1>2, <2>1
  <2>3. ASSUME NEW k \in 1..N PROVE w[k] = [op |-> H[L + 1 - N + k].op, on |-> H[L + 1 - N + k].on]
    <3>1. CASE k = N
      <4>1. L + 1 - N + k = L + 1
        BY <1>1, <2>2, <3>1
      <4> QED
        BY <1>1, <2>1, <3>1, <4>1
    <3>2. CASE k # N
      <4> DEFINE j == IF n = 3 THEN k + 1 ELSE k
      <4>1. k \in 1..(N - 1) /\ j \in 1..n /\ L - n + j = L + 1 - N + k /\ L - n + j \in 1..L
        <5>1. k \in 1..(N - 1)
          BY <2>2, <3>2
        <5>2. CASE n = 3
          BY <1>1, <1>2, <2>1, <5>1, <5>2
        <5>3. CASE n # 3
          BY <1>1, <1>2, <2>1, <5>1, <5>3
        <5> QED
          BY <5>1, <5>2, <5>3
      <4>2. w[k] = old[j]
        BY <2>1, <4>1
      <4> HIDE DEF j
      <4>3. old[j] = [op |-> h[L - n + j].op, on |-> h[L - n + j].on]
        BY <1>2, <4>1
      <4>4. H[L - n + j] = h[L - n + j]
        BY <1>1, <4>1
      <4> QED
        BY <4>1, <4>2, <4>3, <4>4
    <3> QED
      BY <3>1, <3>2
  <2>4. ASSUME N < 3 PROVE N = L + 1 \/ H[L + 1 - N].op = "RETURN"
    <3>1. n < 3 /\ N = n + 1 /\ L + 1 - N = L - n
      BY <1>1, <1>2, <2>1, <2>4
    <3>2. CASE n = L
      BY <3>1, <3>2
    <3>3. CASE n # L
      <4>1. h[L - n].op = "RETURN" /\ L - n \in 1..L
        BY <1>1, <1>2, <3>1, <3>3
      <4> QED
        BY <1>1, <3>1, <4>1
    <3> QED
      BY <3>2, <3>3
  <2> QED
    BY <1>1, <1>4, <2>2, <2>3, <2>4 DEF WindowKept
<1> QED
  BY <1>6, <1>7 DEF H

LEMMA LastStays ==
  ASSUME NEW h, NEW col, NEW s, Records(h, col), Fits(h, col, s), ~col.stop
  PROVE  LastKept(Append(h, s), Collect(col, s))
<1> DEFINE H == Append(h, s)
           d == Collect(col, s)
<1>1. Len(H) = Len(h) + 1 /\ Len(h) \in Nat /\ H[Len(h) + 1] = s
  BY AppendIs
<1>2. d.lastOp = IF s.depth = 1 THEN "" ELSE s.op
  <2>1. Collects(col, s, d)
    BY CollectFits
  <2> HIDE DEF d
  <2> QED
    BY <2>1 DEF Collects
<1>3. s.depth = 1 => s.op # "GAS"
  BY DEF Fits, Sound
<1> HIDE DEF H, d
<1>4. LastKept(H, d)
  <2>1. Len(H) > 0 /\ H[Len(H)] = s
    BY <1>1
  <2>2. d.lastOp = "GAS" <=> s.op = "GAS"
    BY <1>2, <1>3
  <2> QED
    BY <2>1, <2>2 DEF LastKept
<1> QED
  BY <1>4 DEF H, d

LEMMA HashesStay ==
  ASSUME NEW h, NEW col, NEW s, Records(h, col), Fits(h, col, s), ~col.stop
  PROVE  HashesKept(Append(h, s), Collect(col, s))
<1> DEFINE H == Append(h, s)
           d == Collect(col, s)
           L == Len(h)
<1>1. /\ L \in Nat /\ H[L + 1] = s /\ (\A i \in 1..L : H[i] = h[i])
      /\ DOMAIN H = 1..(L + 1) /\ DOMAIN h = 1..L
  BY AppendIs
<1>2. d.keccak = IF s.op = "KECCAK256" THEN col.keccak \cup {s.on} ELSE col.keccak
  <2>1. Collects(col, s, d)
    BY CollectFits
  <2>2. s.depth = 1 => s.op # "KECCAK256"
    BY DEF Fits, Sound
  <2> HIDE DEF d
  <2> QED
    BY <2>1, <2>2 DEF Collects
<1>3. HashesKept(h, col)
  BY DEF Records
<1> HIDE DEF H, d, L
<1>4. ASSUME NEW a \in Operand
      PROVE  a \in d.keccak <=> \E i \in DOMAIN H : H[i].op = "KECCAK256" /\ H[i].on = a
  <2>1. a \in col.keccak <=> \E i \in 1..L : h[i].op = "KECCAK256" /\ h[i].on = a
    BY <1>1, <1>3 DEF HashesKept
  <2>2. (\E i \in DOMAIN H : H[i].op = "KECCAK256" /\ H[i].on = a)
          <=> (\E i \in 1..L : h[i].op = "KECCAK256" /\ h[i].on = a)
                \/ (s.op = "KECCAK256" /\ s.on = a)
    BY <1>1
  <2> QED
    BY <1>2, <2>1, <2>2
<1>5. HashesKept(H, d)
  BY <1>4 DEF HashesKept
<1> QED
  BY <1>5 DEF H, d

LEMMA CallsStay ==
  ASSUME NEW h, NEW col, NEW s, Records(h, col), Fits(h, col, s), ~col.stop
  PROVE  CallsKept(Append(h, s), Collect(col, s))
<1> DEFINE H == Append(h, s)
           d == Collect(col, s)
           L == Len(h)
<1>1. /\ L \in Nat /\ H[L + 1] = s /\ (\A i \in 1..L : H[i] = h[i])
      /\ DOMAIN H = 1..(L + 1) /\ DOMAIN h = 1..L
  BY AppendIs
<1>2. d.calls = IF s.op \in CallOps THEN col.calls \cup {CallOf(s)} ELSE col.calls
  <2>1. Collects(col, s, d)
    BY CollectFits
  <2> HIDE DEF d
  <2> QED
    BY <2>1 DEF Collects
<1>3. CallsKept(h, col)
  BY DEF Records
<1> HIDE DEF H, d, L
<1>4. ASSUME NEW i \in DOMAIN H, H[i].op \in CallOps PROVE CallOf(H[i]) \in d.calls
  <2>1. CASE i = L + 1
    BY <1>1, <1>2, <1>4, <2>1
  <2>2. CASE i # L + 1
    <3>1. i \in 1..L /\ H[i] = h[i]
      BY <1>1, <2>2
    <3>2. CallOf(h[i]) \in col.calls
      BY <1>1, <1>3, <1>4, <3>1 DEF CallsKept
    <3> QED
      BY <1>2, <3>1, <3>2
  <2> QED
    BY <2>1, <2>2
<1>5. ASSUME NEW x \in d.calls PROVE \E i \in DOMAIN H : H[i].op \in CallOps /\ CallOf(H[i]) = x
  <2>1. CASE x \in col.calls
    <3>1. PICK i \in 1..L : h[i].op \in CallOps /\ CallOf(h[i]) = x
      BY <1>1, <1>3, <2>1 DEF CallsKept
    <3> QED
      BY <1>1, <3>1
  <2>2. CASE x \notin col.calls
    BY <1>1, <1>2, <1>5, <2>2
  <2> QED
    BY <2>1, <2>2
<1>6. CallsKept(H, d)
  BY <1>4, <1>5 DEF CallsKept
<1> QED
  BY <1>6 DEF H, d

\* Nothing that is kept of an earlier step is lost.
Grows(a, b) ==
  /\ b.target = a.target /\ (a.oog => b.oog)
  /\ a.opcodes \subseteq b.opcodes /\ a.access \subseteq b.access
  /\ a.ext \subseteq b.ext /\ a.sizes \subseteq b.sizes

LEMMA LevelsGrow ==
  ASSUME NEW h, NEW col, NEW s, Records(h, col), Fits(h, col, s), ~col.stop,
         NEW k \in DOMAIN col.levels
  PROVE  k \in DOMAIN Collect(col, s).levels /\ Grows(col.levels[k], Collect(col, s).levels[k])
<1> DEFINE d == Collect(col, s)
           m == Len(col.levels)
           n == Len(Levels(col, s))
           old == col.levels[k]
           new == d.levels[k]
<1>1. /\ m \in Nat /\ n \in Nat /\ DOMAIN d.levels = 1..n /\ k \in 1..m
      /\ n = IF StartsLevel(col, s) THEN m + 1 ELSE m
      /\ k < n \/ s.depth = 1 => new = old
      /\ ~StartsLevel(col, s) /\ s.depth # 1 => d.levels[n] = Grown(col.levels[m], col, s)
  BY LevelsAfter
<1>2. new = old \/ new = Grown(old, col, s)
  <2> HIDE DEF d, n, m
  <2>1. k < n \/ (k = n /\ k = m /\ ~StartsLevel(col, s))
    BY <1>1
  <2> QED
    BY <1>1, <2>1
<1>3. Grows(old, Grown(old, col, s)) /\ Grows(old, old)
  BY DEF Grows, Grown
<1> HIDE DEF old, new, d, n, m
<1>4. Grows(old, new)
  BY <1>2, <1>3
<1> QED
  BY <1>1, <1>4 DEF old, new, d, m

LEMMA KeptStays ==
  ASSUME NEW s, NEW next, NEW a, NEW b, Grows(a, b)
  PROVE  /\ Kept(s, a) => Kept(s, b)
         /\ KeptLater(s, next, a) => KeptLater(s, next, b)
BY DEF Grows, Kept, KeptLater

\* A delayed step is settled by the one after it.
LEMMA DelayedSettled ==
  ASSUME NEW h, NEW col, NEW s, Records(h, col), Fits(h, col, s), ~col.stop,
         Len(h) > 0, h[Len(h)].depth > 1
  PROVE  LET d == Collect(col, s)
         IN  KeptLater(h[Len(h)], s, d.levels[Len(col.levels)])
<1> DEFINE d == Collect(col, s)
           L == Len(h)
           p == h[L]
           m == Len(col.levels)
           new == d.levels[m]
           w == Window(col, s)
           old == col.lastThree
           n == Len(old)
<1>1. CASE p.op \notin Delayed
  BY <1>1 DEF Delayed, KeptLater
<1>2. CASE p.op \in Delayed
  <2>1. s.depth > 1 /\ s.depth # 1 /\ ~StartsLevel(col, s)
    <3>1. s.depth \in Nat
      BY CollectFits DEF StepType
    <3> QED
      BY <1>2, <3>1 DEF Fits
  <2>2. new = Grown(col.levels[m], col, s)
    <3> DEFINE N == Len(Levels(col, s))
    <3>1. N = m /\ d.levels[N] = Grown(col.levels[m], col, s)
      BY <2>1, LevelsAfter
    <3> QED
      BY <3>1
  <2>3. p.op = "GAS" => s.op \in NamedCall \/ "GAS" \in new.opcodes
    <3>1. p.op = "GAS" => col.lastOp = "GAS"
      BY DEF Records, LastKept
    <3> QED
      BY <2>2, <3>1 DEF Grown, Counted
  <2>4. ASSUME p.op \in ExtOps, s.op # "RETURN"
        PROVE  p.on \in new.ext \/ (p.op = "EXTCODESIZE" /\ s.op = "ISZERO")
    <3>1. /\ n \in 0..3 /\ n <= L /\ L \in Nat
          /\ \A k \in 1..n : old[k] = [op |-> h[L - n + k].op, on |-> h[L - n + k].on]
          /\ n < 3 => n = L \/ h[L - n].op = "RETURN"
      BY AppendIs DEF Records, WindowKept
    <3>2. n >= 1 /\ old[n] = [op |-> p.op, on |-> p.on]
      <4>1. p.op # "RETURN"
        BY <2>4 DEF ExtOps
      <4>2. n # 0
        BY <3>1, <4>1
      <4>3. L - n + n = L /\ n \in 1..n
        BY <3>1, <4>2
      <4>4. old[n] = [op |-> h[L - n + n].op, on |-> h[L - n + n].on]
        BY <3>1, <4>3
      <4> QED
        BY <3>1, <4>2, <4>3, <4>4
    <3>3. Slides(old, s, w)
      BY CollectFits, WindowIs
    <3>4. s.op # "REVERT"
      <4>1. s.op \in Ops
        BY CollectFits DEF StepType
      <4> QED
        BY <4>1, SimpleOps DEF Ops, ExtOps, CallOps, StorageOps
    <3> HIDE DEF old, w, p, new
    <3>5. /\ Len(w) \in 2..3 /\ w[Len(w)] = [op |-> s.op, on |-> s.on]
          /\ w[Len(w) - 1] = old[n]
      <4>1. /\ Len(w) = IF n = 3 THEN 3 ELSE n + 1
            /\ w[Len(w)] = [op |-> s.op, on |-> s.on]
            /\ \A k \in 1..(Len(w) - 1) : w[k] = old[IF n = 3 THEN k + 1 ELSE k]
        BY <2>4, <3>3, <3>4 DEF Slides
      <4>2. Len(w) \in 2..3
        BY <3>1, <3>2, <4>1
      <4>3. Len(w) - 1 \in 1..(Len(w) - 1) /\ (IF n = 3 THEN Len(w) - 1 + 1 ELSE Len(w) - 1) = n
        BY <3>1, <4>1, <4>2
      <4> QED
        BY <4>1, <4>2, <4>3
    <3>6. /\ w[Len(w) - 1].op = p.op /\ w[Len(w) - 1].on = p.on
          /\ w[Len(w)].op = s.op
      BY <3>2, <3>5
    <3>7. ASSUME ~(p.op = "EXTCODESIZE" /\ s.op = "ISZERO") PROVE p.on \in ExtTouched(w)
      <4>1. Len(w) = 3 => ~(w[2].op = "EXTCODESIZE" /\ w[3].op = "ISZERO")
        <5> SUFFICES ASSUME Len(w) = 3
                     PROVE  ~(w[2].op = "EXTCODESIZE" /\ w[3].op = "ISZERO")
          OBVIOUS
        <5>1. Len(w) - 1 = 2
          OBVIOUS
        <5>2. w[2].op = p.op
          BY <3>6, <5>1
        <5>3. w[3].op = s.op
          BY <3>6
        <5> QED
          BY <3>7, <5>2, <5>3
      <4>2. Len(w) >= 2
        <5> DEFINE k == Len(w)
        <5>1. k \in 2..3
          BY <3>5
        <5> HIDE DEF k
        <5>2. k >= 2
          BY <5>1
        <5> QED
          BY <5>2 DEF k
      <4>3. w[Len(w) - 1].op \in ExtOps
        BY <2>4, <3>6
      <4>4. ExtTouched(w) = {w[Len(w) - 1].on}
        BY <4>1, <4>2, <4>3 DEF ExtTouched
      <4> QED
        BY <3>6, <4>4
    <3>8. ExtTouched(w) \subseteq new.ext
      BY <2>2 DEF Grown, w
    <3> QED
      BY <3>7, <3>8
  <2> QED
    BY <2>3, <2>4 DEF KeptLater
<1> QED
  BY <1>1, <1>2

LEMMA AllStayKept ==
  ASSUME NEW h, NEW col, NEW s, Records(h, col), Fits(h, col, s), ~col.stop
  PROVE  AllKept(Append(h, s), Collect(col, s))
<1> DEFINE H == Append(h, s)
           d == Collect(col, s)
           L == Len(h)
           m == Len(col.levels)
           n == Len(Levels(col, s))
<1>1. /\ L \in Nat /\ Len(H) = L + 1 /\ H[L + 1] = s /\ (\A i \in 1..L : H[i] = h[i])
      /\ DOMAIN H = 1..(L + 1) /\ DOMAIN h = 1..L
  BY AppendIs
<1>2. /\ m \in Nat /\ n \in Nat /\ Len(d.levels) = n /\ DOMAIN d.levels = 1..n
      /\ DOMAIN col.levels = 1..m
      /\ n = IF StartsLevel(col, s) THEN m + 1 ELSE m
      /\ s.depth > 1 => n > 0
      /\ StartsLevel(col, s) /\ s.depth # 1 => d.levels[n] = Grown(Level(s.on), col, s)
      /\ ~StartsLevel(col, s) /\ s.depth # 1 => d.levels[n] = Grown(col.levels[m], col, s)
  BY LevelsAfter
<1>3. \A k \in 1..m : k \in 1..n /\ Grows(col.levels[k], d.levels[k])
  BY <1>2, LevelsGrow
<1>4. ASSUME NEW i \in 1..L, h[i].depth > 1
      PROVE  \E k \in DOMAIN d.levels : KeptAt(H, d, i, k)
  <2>1. PICK k \in 1..m : KeptAt(h, col, i, k)
    BY <1>1, <1>2, <1>4 DEF Records, AllKept
  <2>2. H[i] = h[i] /\ Kept(h[i], d.levels[k])
    BY <1>1, <1>3, <2>1, KeptStays DEF KeptAt
  <2>3. CASE i = L
    <3>1. k = m /\ H[i + 1] = s
      BY <1>1, <2>1, <2>3 DEF KeptAt
    <3>2. KeptLater(h[L], s, d.levels[m])
      BY <1>1, <1>4, <2>3, DelayedSettled
    <3> HIDE DEF H, d, L, m
    <3>3. KeptAt(H, d, i, k)
      <4>1. KeptLater(H[i], H[i + 1], d.levels[k])
        BY <2>2, <2>3, <3>1, <3>2
      <4>2. i # Len(H)
        BY <1>1, <2>3
      <4> QED
        BY <2>2, <4>1, <4>2 DEF KeptAt
    <3> QED
      BY <1>2, <1>3, <3>3
  <2>4. CASE i # L
    <3>1. i < L /\ H[i + 1] = h[i + 1]
      <4> HIDE DEF H, L
      <4>1. L \in Nat /\ i \in 1..L /\ i # L
        BY <1>1, <2>4
      <4>2. i < L /\ i + 1 \in 1..L
        BY <4>1
      <4> QED
        BY <1>1, <4>2
    <3>2. KeptLater(h[i], h[i + 1], d.levels[k])
      BY <1>3, <2>1, <3>1, KeptStays DEF KeptAt
    <3> HIDE DEF H, d
    <3>3. KeptAt(H, d, i, k)
      BY <1>1, <2>2, <3>1, <3>2 DEF KeptAt
    <3> QED
      BY <1>2, <1>3, <3>3
  <2> QED
    BY <2>3, <2>4
<1>5. ASSUME s.depth > 1 PROVE KeptAt(H, d, L + 1, n)
  <2> DEFINE base == IF StartsLevel(col, s) THEN Level(s.on) ELSE col.levels[m]
             new == d.levels[n]
  <2>1. s.depth # 1
    BY <1>5, CollectFits DEF StepType
  <2>2. new = Grown(base, col, s)
    BY <1>2, <2>1
  <2>3. s.who # SenderCreator => base.target = s.who
    BY <1>5 DEF Fits
  <2> HIDE DEF base, new
  <2>4. Kept(s, new)
    <3>1. /\ new.target = base.target /\ (s.low => new.oog)
          /\ Counted(col, s) \subseteq new.opcodes /\ Sized(base, s) \subseteq new.sizes
          /\ base.access \cup Accessed(base, s) \subseteq new.access
      BY <2>2 DEF Grown
    <3>2. s.op \notin Unimportant \cup {"GAS"} => s.op \in new.opcodes
      BY <3>1 DEF Counted
    <3>3. s.op \in ExtOps \cup CallOps => s.on \in new.sizes
      BY <3>1 DEF Sized
    <3>4. s.op \in StorageOps => \/ <<s.self, s.on, s.op>> \in new.access
                                 \/ s.op = "SLOAD" /\ <<s.self, s.on, "SSTORE">> \in new.access
      BY <3>1 DEF Accessed
    <3> QED
      BY <2>3, <3>1, <3>2, <3>3, <3>4 DEF Kept
  <2> QED
    BY <1>1, <1>2, <2>4 DEF KeptAt, new
<1> HIDE DEF H, d, L, m, n
<1>6. ASSUME NEW i \in DOMAIN H, H[i].depth > 1
      PROVE  \E k \in DOMAIN d.levels : KeptAt(H, d, i, k)
  <2>1. CASE i = L + 1
    <3>1. s.depth > 1
      BY <1>1, <1>6, <2>1
    <3> QED
      BY <1>2, <1>5, <2>1, <3>1
  <2>2. CASE i # L + 1
    <3>1. i \in 1..L /\ h[i].depth > 1
      BY <1>1, <1>6, <2>2
    <3> QED
      BY <1>4, <3>1
  <2> QED
    BY <2>1, <2>2
<1>7. AllKept(H, d)
  BY <1>6 DEF AllKept
<1> QED
  BY <1>7 DEF H, d

LEMMA StillJustified ==
  ASSUME NEW h, NEW col, NEW s, Records(h, col), Fits(h, col, s), NEW lev, Justified(h, lev)
  PROVE  Justified(Append(h, s), lev)
<1> DEFINE H == Append(h, s)
           L == Len(h)
           e == lev.target
<1>1. /\ L \in Nat /\ Len(H) = L + 1 /\ (\A i \in 1..L : H[i] = h[i])
      /\ DOMAIN H = 1..(L + 1) /\ DOMAIN h = 1..L
  BY AppendIs
<1> HIDE DEF H, L
<1>2. \A i \in DOMAIN h : i \in DOMAIN H /\ H[i] = h[i] /\ (Ran(h, e, i) => Ran(H, e, i))
  BY <1>1 DEF Ran
<1>3. \A i \in DOMAIN h : i < L => i < Len(H) /\ H[i + 1] = h[i + 1]
  BY <1>1
<1>4. \A i \in DOMAIN h : 1 < i => H[i - 1] = h[i - 1]
  BY <1>1
<1>5. lev.oog => \E i \in DOMAIN H : Ran(H, e, i) /\ H[i].low
  BY <1>2 DEF Justified
<1>6. \A o \in lev.opcodes \ {"CALL", "RETURN", "GAS"} :
        \E i \in DOMAIN H : Ran(H, e, i) /\ H[i].op = o
  BY <1>2 DEF Justified
<1>7. "GAS" \in lev.opcodes =>
        \E i \in DOMAIN H : /\ Ran(H, e, i) /\ H[i].op = "GAS"
                            /\ i < Len(H) /\ H[i + 1].op \notin NamedCall
  BY <1>2, <1>3 DEF Justified, L
<1>8. \A x \in lev.access :
        \E i \in DOMAIN H : /\ Ran(H, e, i) /\ H[i].op \in StorageOps
                            /\ <<H[i].self, H[i].on, H[i].op>> = x
  BY <1>2 DEF Justified
<1>9. \A a \in lev.sizes \ {Factory} :
        \E i \in DOMAIN H : Ran(H, e, i) /\ H[i].op \in ExtOps \cup CallOps /\ H[i].on = a
  BY <1>2 DEF Justified
<1>10. ASSUME NEW a \in lev.ext
       PROVE  \E i \in DOMAIN H :
         /\ Ran(H, e, i) /\ H[i].op \in ExtOps /\ H[i].on = a /\ 1 < i /\ i < Len(H)
         /\ H[i - 1].op = "RETURN" \/ ~(H[i].op = "EXTCODESIZE" /\ H[i + 1].op = "ISZERO")
  <2>1. PICK i \in DOMAIN h :
         /\ Ran(h, e, i) /\ h[i].op \in ExtOps /\ h[i].on = a /\ 1 < i /\ i < L
         /\ h[i - 1].op = "RETURN" \/ ~(h[i].op = "EXTCODESIZE" /\ h[i + 1].op = "ISZERO")
    BY DEF Justified, L
  <2>2. /\ i \in DOMAIN H /\ Ran(H, e, i) /\ H[i] = h[i] /\ H[i + 1] = h[i + 1]
        /\ H[i - 1] = h[i - 1] /\ i < Len(H)
    BY <1>2, <1>3, <1>4, <2>1
  <2> QED
    BY <2>1, <2>2
<1>11. Justified(H, lev)
  BY <1>5, <1>6, <1>7, <1>8, <1>9, <1>10 DEF Justified
<1> QED
  BY <1>11 DEF H

\* What the window shows of an EXT* opcode is the step before this one.
LEMMA TouchedIs ==
  ASSUME NEW h, NEW col, NEW s, Records(h, col), Fits(h, col, s), ~col.stop,
         NEW a \in ExtTouched(Window(col, s))
  PROVE  LET L == Len(h)
         IN  /\ h[L].op \in ExtOps /\ h[L].on = a
             /\ \/ 1 < L => h[L - 1].op = "RETURN"
                \/ ~(h[L].op = "EXTCODESIZE" /\ s.op = "ISZERO")
<1> DEFINE L == Len(h)
           w == Window(col, s)
           N == Len(w)
           old == col.lastThree
           n == Len(old)
<1>1. Slides(old, s, w)
  BY CollectFits, WindowIs
<1>2. /\ n \in 0..3 /\ n <= L /\ L \in Nat
      /\ \A k \in 1..n : old[k] = [op |-> h[L - n + k].op, on |-> h[L - n + k].on]
      /\ n < 3 => n = L \/ h[L - n].op = "RETURN"
  BY AppendIs DEF Records, WindowKept
<1> HIDE DEF w, old
<1>3. /\ N >= 2 /\ w[N - 1].op \in ExtOps /\ a = w[N - 1].on
      /\ ~(N = 3 /\ w[2].op = "EXTCODESIZE" /\ w[3].op = "ISZERO")
  BY DEF ExtTouched, w
<1>4. /\ N \in 0..3
      /\ s.op \in {"RETURN", "REVERT"} => N = 0
      /\ s.op \notin {"RETURN", "REVERT"} =>
           /\ N = IF n = 3 THEN 3 ELSE n + 1
           /\ w[N] = [op |-> s.op, on |-> s.on]
           /\ \A k \in 1..(N - 1) : w[k] = old[IF n = 3 THEN k + 1 ELSE k]
  BY <1>1 DEF Slides
<1>5. s.op \notin {"RETURN", "REVERT"}
  BY <1>3, <1>4
<1>6. /\ n \in 1..3 /\ N = (IF n = 3 THEN 3 ELSE n + 1)
      /\ N - 1 \in 1..(N - 1) /\ (IF n = 3 THEN N - 1 + 1 ELSE N - 1) = n
  BY <1>2, <1>3, <1>4, <1>5
<1>7. w[N - 1] = old[n] /\ w[N].op = s.op
  BY <1>4, <1>5, <1>6
<1>8. old[n] = [op |-> h[L].op, on |-> h[L].on]
  <2>1. L - n + n = L /\ n \in 1..n
    BY <1>2, <1>6
  <2>2. old[n] = [op |-> h[L - n + n].op, on |-> h[L - n + n].on]
    BY <1>2, <2>1
  <2> QED
    BY <2>1, <2>2
<1>9. h[L].op \in ExtOps /\ h[L].on = a /\ w[N - 1].op = h[L].op
  BY <1>3, <1>7, <1>8
<1>10. ASSUME N = 3 PROVE ~(h[L].op = "EXTCODESIZE" /\ s.op = "ISZERO")
  <2>1. N - 1 = 2
    BY <1>10
  <2>2. w[2].op = h[L].op /\ w[3].op = s.op
    BY <1>7, <1>9, <1>10, <2>1
  <2> QED
    BY <1>3, <1>10, <2>2
<1>11. ASSUME N # 3, 1 < L PROVE h[L - 1].op = "RETURN"
  <2> HIDE DEF N, n
  <2>1. N = 2
    BY <1>3, <1>4, <1>11
  <2>2. n = 1
    BY <1>6, <2>1
  <2>3. L - n = L - 1 /\ n # L
    BY <1>2, <1>11, <2>2
  <2> QED
    BY <1>2, <2>2, <2>3
<1>12. (1 < L => h[L - 1].op = "RETURN") \/ ~(h[L].op = "EXTCODESIZE" /\ s.op = "ISZERO")
  BY <1>10, <1>11
<1> QED
  BY <1>9, <1>12

LEMMA StepJustified ==
  ASSUME NEW h, NEW col, NEW s, Records(h, col), Fits(h, col, s), ~col.stop,
         s.depth > 1, NEW lev, s.who \in {lev.target, SenderCreator}, Justified(h, lev)
  PROVE  Justified(Append(h, s), Grown(lev, col, s))
<1> DEFINE H == Append(h, s)
           L == Len(h)
           e == lev.target
           new == Grown(lev, col, s)
<1>1. /\ L \in Nat /\ Len(H) = L + 1 /\ H[L + 1] = s /\ (\A i \in 1..L : H[i] = h[i])
      /\ DOMAIN H = 1..(L + 1) /\ DOMAIN h = 1..L
      /\ \A i \in DOMAIN H : Sound(H[i])
  BY AppendIs
<1>2. Justified(H, lev)
  BY StillJustified
<1>3. s.who # SenderCreator => Ran(H, e, L + 1)
  BY <1>1 DEF Ran
<1>4. Sound(s) /\ L > 0 /\ h[1].depth = 1
  BY DEF Fits, Records
<1>5. /\ new.target = e /\ new.oog = (lev.oog \/ s.low)
      /\ new.opcodes = lev.opcodes \cup Counted(col, s)
      /\ new.access = lev.access \cup Accessed(lev, s)
      /\ new.ext = lev.ext \cup ExtTouched(Window(col, s))
      /\ new.sizes = lev.sizes \cup Sized(lev, s)
  BY DEF Grown
<1>6. s.op \notin {"CALL", "RETURN"} => s.who # SenderCreator
  BY <1>4 DEF Sound
<1> HIDE DEF H, new
<1>7. h[L].op \in Delayed => /\ s.who # SenderCreator /\ Ran(H, e, L) /\ H[L] = h[L]
                             /\ 1 < L /\ L \in DOMAIN H
  <2> SUFFICES ASSUME h[L].op \in Delayed
               PROVE  s.who # SenderCreator /\ Ran(H, e, L) /\ H[L] = h[L] /\ 1 < L /\ L \in DOMAIN H
    OBVIOUS
  <2>1. s.who = h[L].who /\ s.who # SenderCreator
    BY <1>4 DEF Fits
  <2>2. L \in DOMAIN H /\ H[L] = h[L] /\ Sound(h[L])
    BY <1>1, <1>4
  <2>3. h[L].depth # 1
    BY <2>2 DEF Sound, Delayed, ExtOps
  <2>4. h[L].depth \in Nat \ {0}
    BY <2>2 DEF Sound, StepType
  <2> QED
    BY <1>1, <1>4, <2>1, <2>2, <2>3, <2>4 DEF Ran
<1>8. new.oog => \E i \in DOMAIN H : Ran(H, e, i) /\ H[i].low
  <2>1. CASE s.low
    <3>1. s.who # SenderCreator
      BY <1>4, <2>1 DEF Sound
    <3> QED
      BY <1>1, <1>3, <2>1, <3>1
  <2>2. CASE ~s.low
    BY <1>2, <1>5, <2>2 DEF Justified
  <2> QED
    BY <2>1, <2>2
<1>9. ASSUME NEW o \in new.opcodes \ {"CALL", "RETURN", "GAS"}
      PROVE  \E i \in DOMAIN H : Ran(H, e, i) /\ H[i].op = o
  <2>1. CASE o \in lev.opcodes
    BY <1>2, <2>1 DEF Justified
  <2>2. CASE o \notin lev.opcodes
    <3>1. s.op = o
      BY <1>5, <2>2 DEF Counted
    <3> QED
      BY <1>1, <1>3, <1>6, <3>1
  <2> QED
    BY <2>1, <2>2
<1>10. ASSUME "GAS" \in new.opcodes
       PROVE  \E i \in DOMAIN H : /\ Ran(H, e, i) /\ H[i].op = "GAS"
                                  /\ i < Len(H) /\ H[i + 1].op \notin NamedCall
  <2>1. CASE "GAS" \in lev.opcodes
    BY <1>2, <2>1 DEF Justified
  <2>2. CASE "GAS" \notin lev.opcodes
    <3>1. col.lastOp = "GAS" /\ s.op \notin NamedCall
      BY <1>5, <1>10, <2>2 DEF Counted
    <3>2. h[L].op = "GAS"
      BY <3>1 DEF Records, LastKept
    <3> QED
      BY <1>1, <1>7, <3>1, <3>2 DEF Delayed
  <2> QED
    BY <2>1, <2>2
<1>11. ASSUME NEW x \in new.access
       PROVE  \E i \in DOMAIN H : /\ Ran(H, e, i) /\ H[i].op \in StorageOps
                                  /\ <<H[i].self, H[i].on, H[i].op>> = x
  <2>1. CASE x \in lev.access
    BY <1>2, <2>1 DEF Justified
  <2>2. CASE x \notin lev.access
    <3>1. s.op \in StorageOps /\ x = <<s.self, s.on, s.op>>
      BY <1>5, <2>2 DEF Accessed
    <3>2. s.who # SenderCreator
      BY <1>6, <3>1 DEF StorageOps
    <3> QED
      BY <1>1, <1>3, <3>1, <3>2
  <2> QED
    BY <2>1, <2>2
<1>12. ASSUME NEW a \in new.sizes \ {Factory}
       PROVE  \E i \in DOMAIN H : Ran(H, e, i) /\ H[i].op \in ExtOps \cup CallOps /\ H[i].on = a
  <2>1. CASE a \in lev.sizes
    BY <1>2, <2>1 DEF Justified
  <2>2. CASE a \notin lev.sizes
    <3>1. s.op \in ExtOps \cup CallOps /\ a = s.on
      BY <1>5, <2>2 DEF Sized
    <3>2. s.who # SenderCreator
      BY <1>4, <1>12, <3>1 DEF Sound, ExtOps, CallOps
    <3> QED
      BY <1>1, <1>3, <3>1, <3>2
  <2> QED
    BY <2>1, <2>2
<1>13. ASSUME NEW a \in new.ext
       PROVE  \E i \in DOMAIN H :
         /\ Ran(H, e, i) /\ H[i].op \in ExtOps /\ H[i].on = a /\ 1 < i /\ i < Len(H)
         /\ H[i - 1].op = "RETURN" \/ ~(H[i].op = "EXTCODESIZE" /\ H[i + 1].op = "ISZERO")
  <2>1. CASE a \in lev.ext
    BY <1>2, <2>1 DEF Justified
  <2>2. CASE a \notin lev.ext
    <3>1. a \in ExtTouched(Window(col, s))
      BY <1>5, <2>2
    <3>2. /\ h[L].op \in ExtOps /\ h[L].on = a
          /\ (1 < L => h[L - 1].op = "RETURN") \/ ~(h[L].op = "EXTCODESIZE" /\ s.op = "ISZERO")
      BY <3>1, TouchedIs
    <3>3. Ran(H, e, L) /\ H[L] = h[L] /\ 1 < L /\ L \in DOMAIN H
      BY <1>7, <3>2 DEF Delayed
    <3>4. H[L - 1] = h[L - 1] /\ L < Len(H)
      BY <1>1, <3>3
    <3> QED
      BY <1>1, <3>2, <3>3, <3>4
  <2> QED
    BY <2>1, <2>2
<1>14. Justified(H, new)
  BY <1>5, <1>8, <1>9, <1>10, <1>11, <1>12, <1>13 DEF Justified
<1> QED
  BY <1>14 DEF H, new

LEMMA AllStayJustified ==
  ASSUME NEW h, NEW col, NEW s, Records(h, col), Fits(h, col, s), ~col.stop
  PROVE  AllJustified(Append(h, s), Collect(col, s))
<1> DEFINE H == Append(h, s)
           d == Collect(col, s)
           m == Len(col.levels)
           n == Len(Levels(col, s))
<1>1. /\ m \in Nat /\ n \in Nat /\ DOMAIN d.levels = 1..n /\ DOMAIN col.levels = 1..m
      /\ n = IF StartsLevel(col, s) THEN m + 1 ELSE m
      /\ \A k \in 1..m : k < n \/ s.depth = 1 => d.levels[k] = col.levels[k]
      /\ StartsLevel(col, s) /\ s.depth = 1 => d.levels[n] = Level(s.on)
      /\ StartsLevel(col, s) /\ s.depth # 1 => d.levels[n] = Grown(Level(s.on), col, s)
      /\ ~StartsLevel(col, s) /\ s.depth # 1 => d.levels[n] = Grown(col.levels[m], col, s)
  BY LevelsAfter
<1>2. \A k \in 1..m : Justified(h, col.levels[k])
  BY <1>1 DEF Records, AllJustified
<1>3. \A k \in 1..m : Justified(H, col.levels[k])
  BY <1>2, StillJustified
<1>4. \A t, g : Justified(g, Level(t)) /\ Level(t).target = t
  BY DEF Justified, Level
<1>5. s.depth # 1 => s.depth > 1
  BY CollectFits DEF StepType
<1> HIDE DEF H, d, n, m
<1>6. ASSUME NEW k \in 1..n PROVE Justified(H, d.levels[k])
  <2>1. CASE k \in 1..m /\ (k < n \/ s.depth = 1)
    BY <1>1, <1>3, <2>1
  <2>2. CASE ~(k \in 1..m /\ (k < n \/ s.depth = 1))
    <3>1. k = n
      BY <1>1, <2>2
    <3>2. CASE StartsLevel(col, s)
      <4>1. CASE s.depth = 1
        BY <1>1, <1>4, <3>1, <3>2, <4>1
      <4>2. CASE s.depth # 1
        <5>1. s.who = SenderCreator
          BY <1>5, <3>2, <4>2 DEF Fits
        <5>2. Justified(H, Grown(Level(s.on), col, s))
          BY <1>4, <1>5, <4>2, <5>1, StepJustified DEF H
        <5> QED
          BY <1>1, <3>1, <3>2, <4>2, <5>2
      <4> QED
        BY <4>1, <4>2
    <3>3. CASE ~StartsLevel(col, s)
      <4>1. s.depth # 1 /\ k = m /\ m \in 1..m
        BY <1>1, <2>2, <3>1, <3>3
      <4>2. s.who \in {col.levels[m].target, SenderCreator}
        BY <1>5, <4>1 DEF Fits, m
      <4>3. Justified(H, Grown(col.levels[m], col, s))
        BY <1>2, <1>5, <4>1, <4>2, StepJustified DEF H
      <4> QED
        BY <1>1, <3>1, <3>3, <4>1, <4>3
    <3> QED
      BY <3>2, <3>3
  <2> QED
    BY <2>1, <2>2
<1>7. AllJustified(H, d)
  BY <1>1, <1>6 DEF AllJustified
<1> QED
  BY <1>7 DEF H, d

LEMMA RecordsStep ==
  ASSUME NEW h, NEW col, NEW s, Records(h, col), Fits(h, col, s), ~col.stop
  PROVE  /\ Records(Append(h, s), Collect(col, s))
         /\ Collect(col, s).stop = Stops(col, s)
<1> DEFINE H == Append(h, s)
           d == Collect(col, s)
           L == Len(h)
<1>1. /\ H \in Seq(StepType) /\ (\A i \in DOMAIN H : Sound(H[i]))
      /\ Len(H) = L + 1 /\ L \in Nat
      /\ H[L + 1] = s /\ (\A i \in 1..L : H[i] = h[i])
  BY AppendIs
<1>2. Collects(col, s, d)
  BY CollectFits
<1>3. d \in ColType /\ d.stop = Stops(col, s)
  BY <1>2 DEF Collects
<1>4. AllKept(H, d) /\ AllJustified(H, d)
  BY AllStayKept, AllStayJustified
<1>5. CallsKept(H, d) /\ HashesKept(H, d) /\ WindowKept(H, d) /\ LastKept(H, d)
  BY CallsStay, HashesStay, WindowStays, LastStays
<1>6. s.depth \in Nat \ {0} /\ (s.depth > 1 => L > 0) /\ (L > 0 => h[1].depth = 1)
  <2>1. s \in StepType
    BY CollectFits
  <2>2. s.depth \in Nat \ {0}
    BY <2>1 DEF StepType
  <2>3. s.depth > 1 => L > 0
    BY DEF Fits
  <2>4. L > 0 => h[1].depth = 1
    BY DEF Records
  <2> QED
    BY <2>2, <2>3, <2>4
<1> HIDE DEF H, d, L
<1>7. H[1].depth = 1
  BY <1>1, <1>6
<1>8. Records(H, d)
  BY <1>1, <1>3, <1>4, <1>5, <1>7 DEF Records
<1> QED
  BY <1>3, <1>8 DEF H, d

\* The level a step ends up on.
LEMMA TargetAfter ==
  ASSUME NEW h, NEW col, NEW s, Records(h, col), Fits(h, col, s), ~col.stop
  PROVE  LET d == Collect(col, s)
         IN  /\ StartsLevel(col, s) => d.levels # <<>> /\ Last(d.levels).target = s.on
             /\ ~StartsLevel(col, s) /\ col.levels # <<>> =>
                  d.levels # <<>> /\ Last(d.levels).target = Last(col.levels).target
<1> DEFINE d == Collect(col, s)
           m == Len(col.levels)
           n == Len(Levels(col, s))
<1>1. /\ m \in Nat /\ n \in Nat /\ Len(d.levels) = n
      /\ n = IF StartsLevel(col, s) THEN m + 1 ELSE m
      /\ \A k \in 1..m : k < n \/ s.depth = 1 => d.levels[k] = col.levels[k]
      /\ StartsLevel(col, s) /\ s.depth = 1 => d.levels[n] = Level(s.on)
      /\ StartsLevel(col, s) /\ s.depth # 1 => d.levels[n] = Grown(Level(s.on), col, s)
      /\ ~StartsLevel(col, s) /\ s.depth # 1 => d.levels[n] = Grown(col.levels[m], col, s)
  BY LevelsAfter
<1>2. d.levels \in Seq(LevelType) /\ col.levels \in Seq(LevelType)
  <2>1. Collects(col, s, d) /\ col \in ColType
    BY CollectFits
  <2> HIDE DEF d
  <2>2. d \in ColType
    BY <2>1 DEF Collects
  <2> QED
    BY <2>1, <2>2 DEF ColType
<1>3. /\ Last(d.levels) = d.levels[n] /\ Last(col.levels) = col.levels[m]
      /\ n > 0 => d.levels # <<>>
      /\ col.levels # <<>> => m > 0
  <2>1. Last(d.levels) = d.levels[n] /\ Last(col.levels) = col.levels[m]
    BY <1>1 DEF Last
  <2>2. n > 0 => d.levels # <<>>
    BY <1>1, EmptySeq
  <2>3. col.levels # <<>> => m > 0
    <3> HIDE DEF d, n
    <3> QED
      BY <1>1, <1>2, EmptySeq
  <2> QED
    BY <2>1, <2>2, <2>3
<1>4. \A t : Level(t).target = t
  BY DEF Level
<1>5. \A lev : Grown(lev, col, s).target = lev.target
  BY DEF Grown
<1> HIDE DEF d, m, n
<1>6. StartsLevel(col, s) => d.levels # <<>> /\ Last(d.levels).target = s.on
  BY <1>1, <1>3, <1>4, <1>5
<1>7. ~StartsLevel(col, s) /\ col.levels # <<>> =>
        d.levels # <<>> /\ Last(d.levels).target = Last(col.levels).target
  <2>1. ~StartsLevel(col, s) /\ col.levels # <<>> => n > 0 /\ n = m /\ m \in 1..m
    BY <1>1, <1>3
  <2> QED
    BY <1>1, <1>3, <1>5, <2>1
<1> QED
  BY <1>6, <1>7 DEF d

-----------------------------------------------------------------------------
(* The frames.                                                              *)

\* What the frames say of the step that is made now.
Top ==
  /\ Depth \in Nat \ {0}
  /\ Depth > 1 => Len(history) > 0 /\ Len(c.levels) > 0
  /\ Last(stack) = stack[Depth]
  /\ Last(stack).self \in Address /\ Last(stack).code \in Address
  /\ Who \in Address
  /\ Depth = 1 <=> Who = EntryPoint
  /\ Depth > 1 => Last(stack).self # EntryPoint
  /\ Who = SenderCreator <=> Last(stack).code = SenderCreator
  /\ Last(stack).code = SenderCreator => Depth = 2
  /\ Depth > 1 /\ Who # SenderCreator => Last(c.levels).target = Who
  /\ Who \in Entities \cup {EntryPoint, SenderCreator}

LEMMA TopIs ==
  ASSUME CollectorInv, phase = "validation"
  PROVE  Top
<1> DEFINE n == Len(stack)
           e == Last(c.levels).target
<1>1. Validating
  BY DEF CollectorInv
<1>2. /\ stack \in Seq([code : Address, self : Address]) /\ n > 0
      /\ stack[1] = [code |-> EntryPoint, self |-> EntryPoint]
      /\ n > 1 => Len(history) > 0
      /\ \A k \in 2..n :
           /\ stack[k].code \in Entities \cup {SenderCreator, Token}
           /\ stack[k].self \in Address \ {EntryPoint}
           /\ stack[k].code = SenderCreator => k = 2
  BY <1>1 DEF Validating, Frames
<1>3. n \in Nat /\ Last(stack) = stack[n] /\ stack[n] \in [code : Address, self : Address]
  <2>1. n \in Nat
    BY <1>2, LenProperties
  <2>2. n \in 1..n
    BY <1>2, <2>1
  <2> QED
    BY <1>2, <2>1, <2>2, ElementOfSeq DEF Last
<1>4. LevelIs(n, e)
  BY <1>1 DEF Validating
<1>5. c.levels \in Seq(LevelType)
  BY DEF CollectorInv, Records, ColType
<1>6. n > 1 => Len(c.levels) > 0
  BY <1>4, <1>5 DEF LevelIs
<1>7. Entities \subseteq Entity
  BY DEF Entities, Entity
<1>8. /\ EntryPoint # SenderCreator /\ EntryPoint \notin Entity /\ EntryPoint # Token
      /\ SenderCreator \notin Entity /\ SenderCreator # Token
  BY Distinct DEF Entity
<1>9. \A k \in 2..n : stack[k].code # EntryPoint /\ stack[k].code \in Address
  BY <1>2, <1>7, <1>8 DEF Address
<1>10. n = 1 => Who = EntryPoint
  BY DEF Who, Depth
<1>11. n > 1 => /\ Who = IF stack[2].code # SenderCreator THEN stack[2].code
                          ELSE IF n > 2 THEN stack[3].code ELSE SenderCreator
                /\ 2 \in 2..n /\ (n > 2 => 3 \in 2..n) /\ n \in 2..n
  BY <1>3 DEF Who, Depth
<1>12. n > 1 => Who # EntryPoint /\ Who \in Address
  BY <1>8, <1>9, <1>11 DEF Address
<1> HIDE DEF n, e
<1>13. Who = SenderCreator <=> Last(stack).code = SenderCreator
  <2>1. CASE n = 1
    BY <1>2, <1>3, <1>8, <1>10, <2>1
  <2>2. CASE n = 2
    BY <1>3, <1>11, <2>2
  <2>3. CASE n > 2
    <3>2. n > 1 /\ n # 2
      BY <1>3, <2>3
    <3>1. stack[n].code # SenderCreator /\ stack[3].code # SenderCreator
      BY <1>2, <1>11, <2>3, <3>2
    <3>3. Who = IF stack[2].code # SenderCreator THEN stack[2].code ELSE stack[3].code
      BY <1>11, <2>3, <3>2
    <3>4. Who # SenderCreator
      BY <3>1, <3>3
    <3>5. Last(stack).code # SenderCreator
      BY <1>3, <3>1
    <3> QED
      BY <3>4, <3>5
  <2>4. n = 1 \/ n = 2 \/ n > 2
    BY <1>2, <1>3
  <2> QED
    BY <2>1, <2>2, <2>3, <2>4
<1>14. Last(stack).code = SenderCreator => n = 2
  BY <1>2, <1>3, <1>8, <1>11
<1>15. n > 1 /\ Who # SenderCreator => e = Who
  BY <1>4, <1>11 DEF LevelIs
<1>16. n > 1 => Last(stack).self # EntryPoint
  BY <1>2, <1>3, <1>11
<1>17. EntryPoint \in Address
  BY DEF Address
<1>23. n > 1 => Who \in Entities \cup {SenderCreator}
  <2> SUFFICES ASSUME n > 1 PROVE Who \in Entities \cup {SenderCreator}
    OBVIOUS
  <2>1. stack[2].code \in Entities \cup {SenderCreator}
    <3>1. stack[2].code # Token
      BY <1>1 DEF Validating, Frames, n
    <3> QED
      BY <1>2, <1>11, <3>1
  <2>2. n > 2 /\ stack[2].code = SenderCreator => stack[3].code \in Entities
    <3> SUFFICES ASSUME n > 2, stack[2].code = SenderCreator PROVE stack[3].code \in Entities
      OBVIOUS
    <3>1. stack[3].code = Factory
      BY <1>4 DEF LevelIs
    <3>2. Factory # Token /\ Factory # SenderCreator
      BY Distinct
    <3> QED
      BY <1>2, <1>11, <3>1, <3>2
  <2> QED
    BY <1>11, <2>1, <2>2
<1>18. Depth = n /\ e = Last(c.levels).target
  BY DEF Depth, n, e
<1>19. n \in Nat \ {0} /\ (n > 1 => Len(history) > 0 /\ Len(c.levels) > 0) /\ (n # 1 => n > 1)
  BY <1>2, <1>3, <1>6
<1>20. n = 1 <=> Who = EntryPoint
  BY <1>10, <1>12, <1>19
<1>24. Who \in Entities \cup {EntryPoint, SenderCreator}
  BY <1>10, <1>19, <1>23
<1>21. Last(stack).self \in Address /\ Last(stack).code \in Address
  BY <1>3
<1>22. Who \in Address
  BY <1>10, <1>12, <1>17, <1>19
<1> QED
  BY <1>3, <1>13, <1>14, <1>15, <1>16, <1>18, <1>19, <1>20, <1>21, <1>22, <1>24 DEF Top

\* Whatever the top frame does fits what the tracer holds.
LEMMA StepFits ==
  ASSUME CollectorInv, phase = "validation", NEW s, Sound(s), s.depth = Depth, s.who = Who
  PROVE  Fits(history, c, s)
<1>1. Top
  BY TopIs
<1>2. ~(s.depth # 1 /\ s.who # SenderCreator /\ StartsLevel(c, s))
  <2> SUFFICES ASSUME s.depth # 1, s.who # SenderCreator, StartsLevel(c, s) PROVE FALSE
    OBVIOUS
  <2>1. s.depth = 2 /\ Last(c.levels).target = SenderCreator
    BY DEF StartsLevel
  <2>2. Last(c.levels).target = Who
    BY <1>1, <2>1 DEF Top
  <2> QED
    BY <2>1, <2>2
<1>3. StartsLevel(c, s) => s.on \in Address
  <2> SUFFICES ASSUME StartsLevel(c, s) PROVE s.on \in Address
    OBVIOUS
  <2>1. s.who \in {EntryPoint, SenderCreator}
    BY <1>2 DEF Sound
  <2>2. s.op = "CALL"
    BY <2>1 DEF Sound, StartsLevel
  <2> QED
    BY <2>1, <2>2 DEF Sound, Address
<1>4. s.depth > 1 => Len(history) > 0 /\ Len(c.levels) > 0
  BY <1>1 DEF Top
<1>5. s.depth > 1 /\ s.who # SenderCreator =>
        ~StartsLevel(c, s) /\ c.levels[Len(c.levels)].target = s.who
  <2>1. s.depth > 1 => s.depth # 1
    OBVIOUS
  <2> QED
    BY <1>1, <1>2, <2>1 DEF Top, Last
<1>6. Len(history) > 0 /\ history[Len(history)].op \in Delayed =>
        s.depth > 1 /\ s.who = history[Len(history)].who /\ s.who # SenderCreator
  BY <1>1 DEF CollectorInv, Validating, Last, Top, Depth
<1> QED
  BY <1>3, <1>4, <1>5, <1>6 DEF Fits

\* What a step of the validation leaves.
Ran1(s) ==
  /\ Records(history', c') /\ c'.stop = Stops(c, s)
  /\ op' = op /\ Len(history') > 0 /\ Last(history') = s
  /\ \A i \in DOMAIN history' : history'[i].who \in Entities' \cup {EntryPoint, SenderCreator}
  /\ StartsLevel(c, s) => c'.levels # <<>> /\ Last(c'.levels).target = s.on
  /\ ~StartsLevel(c, s) /\ c.levels # <<>> =>
       c'.levels # <<>> /\ Last(c'.levels).target = Last(c.levels).target

LEMMA RunsOn ==
  ASSUME CollectorInv, phase = "validation", NEW name, NEW on, NEW low, NEW m, NEW v,
         Sound(Step(Depth, name, on, Last(stack).self, low, m, v, Who)),
         Runs(name, on, low, m, v)
  PROVE  Ran1(Step(Depth, name, on, Last(stack).self, low, m, v, Who))
<1> DEFINE s == Step(Depth, name, on, Last(stack).self, low, m, v, Who)
<1>1. s.depth = Depth /\ s.who = Who
  BY DEF Step
<1>2. history' = Append(history, s) /\ c' = Collect(c, s) /\ op' = op
  BY DEF Runs
<1> HIDE DEF s
<1>3. Sound(s)
  BY DEF s
<1>4. Fits(history, c, s)
  BY <1>1, <1>3, StepFits
<1>5. ~c.stop /\ Records(history, c)
  BY DEF CollectorInv, Validating
<1>6. Records(history', c') /\ c'.stop = Stops(c, s)
  BY <1>2, <1>4, <1>5, RecordsStep
<1>7. Len(history') > 0 /\ Last(history') = s
  <2>1. LET H == Append(history, s)
        IN  Len(H) = Len(history) + 1 /\ Len(history) \in Nat /\ H[Len(history) + 1] = s
    BY <1>4, <1>5, AppendIs
  <2> QED
    BY <1>2, <2>1 DEF Last
<1>8. /\ StartsLevel(c, s) => c'.levels # <<>> /\ Last(c'.levels).target = s.on
      /\ ~StartsLevel(c, s) /\ c.levels # <<>> =>
           c'.levels # <<>> /\ Last(c'.levels).target = Last(c.levels).target
  BY <1>2, <1>4, <1>5, TargetAfter
<1>9. \A i \in DOMAIN history' : history'[i].who \in Entities' \cup {EntryPoint, SenderCreator}
  <2>1. \A i \in DOMAIN history : history[i].who \in Entities \cup {EntryPoint, SenderCreator}
    BY DEF CollectorInv
  <2>2. s.who \in Entities \cup {EntryPoint, SenderCreator}
    BY <1>1, TopIs DEF Top
  <2>3. LET H == Append(history, s)
        IN  /\ DOMAIN H = 1..(Len(history) + 1) /\ DOMAIN history = 1..Len(history)
            /\ Len(history) \in Nat
            /\ H[Len(history) + 1] = s /\ \A i \in 1..Len(history) : H[i] = history[i]
    BY <1>4, <1>5, AppendIs
  <2>4. Entities' = Entities
    BY <1>2 DEF Entities
  <2> QED
    BY <1>2, <2>1, <2>2, <2>3, <2>4
<1> QED
  BY <1>2, <1>6, <1>7, <1>8, <1>9 DEF Ran1, s

\* The steps of the contracts.
LEMMA FreeSound ==
  ASSUME CollectorInv, Free, NEW name \in Ops, NEW on \in Operand, NEW low \in BOOLEAN,
         NEW m \in Carried, NEW v \in BOOLEAN, low => name = "SSTORE",
         name \in CallOps /\ on = EntryPoint => m \in Methods
  PROVE  Sound(Step(Depth, name, on, Last(stack).self, low, m, v, Who))
<1> DEFINE s == Step(Depth, name, on, Last(stack).self, low, m, v, Who)
<1>1. Top /\ Depth > 1 /\ Last(stack).code # SenderCreator
  BY TopIs DEF Free
<1>2. /\ Depth \in Nat \ {0} /\ Last(stack).self \in Address /\ Who \in Address
      /\ Who \notin {EntryPoint, SenderCreator} /\ Depth # 1 /\ Last(stack).self # EntryPoint
  BY <1>1 DEF Top
<1>3. /\ s.depth = Depth /\ s.op = name /\ s.on = on /\ s.self = Last(stack).self
      /\ s.low = low /\ s.method = m /\ s.value = v /\ s.who = Who
  BY DEF Step
<1>4. s \in StepType
  BY <1>2 DEF Step, StepType
<1> HIDE DEF s
<1>5. Sound(s)
  BY <1>2, <1>3, <1>4 DEF Sound
<1> QED
  BY <1>5 DEF s

LEMMA InvokeSound ==
  ASSUME CollectorInv, phase = "validation", Invoke
  PROVE  Sound(Step(Depth, "CALL", Head(pending), Last(stack).self, FALSE, "0xcalldata",
                    FALSE, Who))
<1> DEFINE to == Head(pending)
           s == Step(Depth, "CALL", to, Last(stack).self, FALSE, "0xcalldata", FALSE, Who)
<1>1. Top
  BY TopIs
<1>2. /\ Depth \in Nat \ {0} /\ Last(stack).self \in Address /\ Who \in Address
      /\ Depth = 1 <=> Who = EntryPoint
      /\ Depth > 1 => Last(stack).self # EntryPoint
      /\ Who = SenderCreator <=> Last(stack).code = SenderCreator
  BY <1>1 DEF Top
<1>3. to \in Entities \cup {SenderCreator}
  BY DEF Invoke, CollectorInv, Validating, Pending
<1>4. to \in Entity \cup {SenderCreator} /\ to # EntryPoint
  BY <1>3, Distinct DEF Entities, Entity
<1>5. /\ to = Factory => Who = SenderCreator
      /\ to # Factory => Who = EntryPoint
  BY <1>2 DEF Invoke
<1>6. "CALL" \in Ops /\ to \in Operand /\ "0xcalldata" \in Carried
  BY <1>4 DEF Ops, CallOps, Operand, Address, Carried
<1>7. /\ s.depth = Depth /\ s.op = "CALL" /\ s.on = to /\ s.self = Last(stack).self
      /\ s.low = FALSE /\ s.method = "0xcalldata" /\ s.value = FALSE /\ s.who = Who
  BY DEF Step
<1> HIDE DEF to
<1>8. s \in StepType
  BY <1>2, <1>6 DEF Step, StepType
<1> HIDE DEF s
<1>9. Sound(s)
  BY <1>2, <1>4, <1>5, <1>7, <1>8, Distinct DEF Sound
<1> QED
  BY <1>9 DEF s, to

\* The returns, and the event of EntryPoint.
LEMMA OtherSound ==
  ASSUME CollectorInv, phase = "validation", NEW name \in {"RETURN", "LOG1"},
         name = "LOG1" => Depth = 1
  PROVE  Sound(Step(Depth, name, EntryPoint, Last(stack).self, FALSE, "0x", FALSE, Who))
<1> DEFINE s == Step(Depth, name, EntryPoint, Last(stack).self, FALSE, "0x", FALSE, Who)
<1>1. Top
  BY TopIs
<1>2. /\ Depth \in Nat \ {0} /\ Last(stack).self \in Address /\ Who \in Address
      /\ Depth = 1 <=> Who = EntryPoint
      /\ Depth > 1 => Last(stack).self # EntryPoint
  BY <1>1 DEF Top
<1>3. name \in Ops /\ EntryPoint \in Operand /\ "0x" \in Carried
  BY DEF Ops, Operand, Address, Carried
<1>4. /\ s.depth = Depth /\ s.op = name /\ s.on = EntryPoint /\ s.self = Last(stack).self
      /\ s.low = FALSE /\ s.method = "0x" /\ s.value = FALSE /\ s.who = Who
  BY DEF Step
<1>5. s \in StepType
  BY <1>2, <1>3 DEF Step, StepType
<1>6. name \notin CallOps /\ SenderCreator # EntryPoint
  BY Distinct DEF CallOps
<1> HIDE DEF s
<1>7. Sound(s)
  BY <1>2, <1>4, <1>5, <1>6 DEF Sound
<1> QED
  BY <1>7 DEF s

\* Frames are pushed and popped.
LEMMA Pushed ==
  ASSUME CollectorInv, phase = "validation", NEW code, NEW self, Push(code, self),
         code \in Entities \cup {SenderCreator, Token}, self \in Address \ {EntryPoint},
         code = SenderCreator => Len(stack) = 1, code = Token => Depth > 1,
         Len(history') > 0, op' = op
  PROVE  /\ Frames' /\ Len(stack') = Len(stack) + 1 /\ Len(stack) \in Nat \ {0}
         /\ stack'[Len(stack) + 1].code = code
         /\ \A k \in 1..Len(stack) : stack'[k] = stack[k]
<1> DEFINE n == Len(stack)
           fr == [code |-> code, self |-> self]
<1>1. Frames
  BY DEF CollectorInv, Validating
<1>2. Entities \cup {SenderCreator, Token} \subseteq Address
  BY DEF Entities, Address, Entity
<1>3. fr \in [code : Address, self : Address]
  BY <1>2
<1>4. stack \in Seq([code : Address, self : Address]) /\ n > 0
  BY <1>1 DEF Frames
<1>5. /\ stack' \in Seq([code : Address, self : Address]) /\ Len(stack') = n + 1
      /\ n \in Nat \ {0} /\ stack'[n + 1] = fr /\ \A k \in 1..n : stack'[k] = stack[k]
  BY <1>3, <1>4 DEF Push
<1>6. fr.code = code /\ fr.self = self
  OBVIOUS
<1>7. Entities' = Entities
  BY DEF Entities
<1>8. \A k \in 2..n : /\ stack[k].code \in Entities \cup {SenderCreator, Token}
                      /\ stack[k].self \in Address \ {EntryPoint}
                      /\ stack[k].code = SenderCreator => k = 2
  BY <1>1 DEF Frames
<1>9. stack[1] = [code |-> EntryPoint, self |-> EntryPoint]
  BY <1>1 DEF Frames
<1>10. code = SenderCreator => n = 1
  OBVIOUS
<1>14. /\ code = Token => n > 1
       /\ n > 1 => stack[2].code # Token
  BY <1>1 DEF Frames, Depth
<1> HIDE DEF n, fr
<1>11. ASSUME NEW k \in 2..(n + 1)
       PROVE  /\ stack'[k].code \in Entities \cup {SenderCreator, Token}
              /\ stack'[k].self \in Address \ {EntryPoint}
              /\ stack'[k].code = SenderCreator => k = 2
  <2>1. CASE k = n + 1
    BY <1>5, <1>6, <1>10, <2>1
  <2>2. CASE k # n + 1
    <3>1. k \in 2..n /\ k \in 1..n
      BY <1>5, <2>2
    <3> QED
      BY <1>5, <1>8, <3>1
  <2> QED
    BY <2>1, <2>2
<1>12. stack'[1] = [code |-> EntryPoint, self |-> EntryPoint] /\ Len(stack') > 0
  BY <1>5, <1>9
<1>15. stack'[2].code # Token
  <2>1. CASE n = 1
    BY <1>5, <1>6, <1>14, <2>1
  <2>2. CASE n # 1
    <3>1. n > 1 /\ 2 \in 1..n
      BY <1>5, <2>2
    <3> QED
      BY <1>5, <1>14, <3>1
  <2> QED
    BY <2>1, <2>2
<1>13. Frames'
  BY <1>5, <1>7, <1>11, <1>12, <1>15 DEF Frames
<1> QED
  BY <1>5, <1>6, <1>13 DEF n

LEMMA Popped ==
  ASSUME CollectorInv, phase = "validation", Depth > 1, stack' = Front(stack),
         Len(history') > 0, op' = op
  PROVE  /\ Frames' /\ Len(stack') = Len(stack) - 1 /\ Len(stack) \in Nat \ {0, 1}
         /\ \A k \in 1..(Len(stack) - 1) : stack'[k] = stack[k]
<1> DEFINE n == Len(stack)
<1>1. Frames
  BY DEF CollectorInv, Validating
<1>2. stack \in Seq([code : Address, self : Address]) /\ n > 0
  BY <1>1 DEF Frames
<1>3. n \in Nat \ {0, 1}
  <2>1. n \in Nat
    BY <1>2, LenProperties
  <2>2. n > 1
    BY DEF Depth
  <2> HIDE DEF n
  <2> QED
    BY <2>1, <2>2
<1>4. /\ stack' \in Seq([code : Address, self : Address]) /\ Len(stack') = n - 1
      /\ \A k \in 1..(n - 1) : stack'[k] = stack[k]
  <2>1. stack' = SubSeq(stack, 1, n - 1)
    BY DEF Front
  <2>2. 1 \in Int /\ n - 1 \in Int /\ \A i \in 1..(n - 1) : stack[i] \in [code : Address, self : Address]
    <3>1. \A i \in 1..n : stack[i] \in [code : Address, self : Address]
      BY <1>2, ElementOfSeq
    <3> HIDE DEF n
    <3>2. \A i \in 1..(n - 1) : i \in 1..n
      BY <1>3
    <3> QED
      BY <1>3, <3>1, <3>2
  <2>3. /\ SubSeq(stack, 1, n - 1) \in Seq([code : Address, self : Address])
        /\ Len(SubSeq(stack, 1, n - 1)) = IF 1 <= n - 1 THEN (n - 1) - 1 + 1 ELSE 0
        /\ \A k \in 1..((n - 1) - 1 + 1) : SubSeq(stack, 1, n - 1)[k] = stack[1 + k - 1]
    BY <1>2, <2>2, SubSeqProperties
  <2> HIDE DEF n
  <2>4. 1 <= n - 1 /\ (n - 1) - 1 + 1 = n - 1 /\ \A k \in 1..(n - 1) : 1 + k - 1 = k
    BY <1>3
  <2> QED
    BY <2>1, <2>3, <2>4
<1>5. Entities' = Entities
  BY DEF Entities
<1>6. \A k \in 2..n : /\ stack[k].code \in Entities \cup {SenderCreator, Token}
                      /\ stack[k].self \in Address \ {EntryPoint}
                      /\ stack[k].code = SenderCreator => k = 2
  BY <1>1 DEF Frames
<1>7. stack[1] = [code |-> EntryPoint, self |-> EntryPoint]
  BY <1>1 DEF Frames
<1> HIDE DEF n
<1>8. ASSUME NEW k \in 2..(n - 1)
      PROVE  /\ stack'[k].code \in Entities \cup {SenderCreator, Token}
             /\ stack'[k].self \in Address \ {EntryPoint}
             /\ stack'[k].code = SenderCreator => k = 2
  <2>1. k \in 2..n /\ k \in 1..(n - 1)
    BY <1>3
  <2> QED
    BY <1>4, <1>6, <2>1
<1>9. stack'[1] = [code |-> EntryPoint, self |-> EntryPoint] /\ Len(stack') > 0
  BY <1>3, <1>4, <1>7
<1>11. n > 1 => stack[2].code # Token
  BY <1>1 DEF Frames, n
<1>12. n - 1 > 1 => stack'[2].code # Token
  <2>1. n - 1 > 1 => 2 \in 1..(n - 1) /\ n > 1
    BY <1>3
  <2> QED
    BY <1>4, <1>11, <2>1
<1>10. Frames'
  BY <1>4, <1>5, <1>8, <1>9, <1>12 DEF Frames
<1> QED
  BY <1>3, <1>4, <1>10 DEF n

-----------------------------------------------------------------------------
(* The invariant is kept.                                                   *)

\* In the validation it is enough that the frames, the level and what is pending fit.
LEMMA StaysInside ==
  ASSUME CollectorInv, phase = "validation", phase' = "validation", NEW s, Ran1(s),
         s.depth # 1 \/ s.op # "LOG1", Pending', Frames',
         LevelIs(Len(stack), Last(c.levels).target)',
         pending' = <<>> => c'.levels # <<>>,
         s.op \in Delayed => Len(stack') > 1 /\ Last(stack').code # SenderCreator /\ Who' = s.who
  PROVE  CollectorInv'
<1>1. /\ Records(history', c') /\ c'.stop = Stops(c, s) /\ op' = op
      /\ Len(history') > 0 /\ Last(history') = s
      /\ \A i \in DOMAIN history' : history'[i].who \in Entities' \cup {EntryPoint, SenderCreator}
  BY DEF Ran1
<1>2. ~c'.stop
  BY <1>1 DEF Stops
<1>3. Validating'
  BY <1>1, <1>2 DEF Validating
<1>4. op \in [factory : BOOLEAN, paymaster : BOOLEAN]
  BY DEF CollectorInv
<1> QED
  BY <1>1, <1>3, <1>4 DEF CollectorInv

\* A step of a contract that stays in its frame.
LEMMA QuietKeeps ==
  ASSUME CollectorInv, Free, NEW s, Ran1(s), s.depth = Depth, s.who = Who,
         ~StartsLevel(c, s), stack' = stack
  PROVE  CollectorInv'
<1>1. Top /\ Validating /\ phase = "validation" /\ phase' = "validation" /\ pending' = pending
  BY TopIs DEF Free, CollectorInv
<1>2. /\ op' = op /\ Len(history') > 0
      /\ c.levels # <<>> => c'.levels # <<>> /\ Last(c'.levels).target = Last(c.levels).target
  BY DEF Ran1
<1>3. Depth > 1 /\ Depth \in Nat \ {0} /\ Last(stack).code # SenderCreator /\ Len(c.levels) > 0
  BY <1>1 DEF Free, Top
<1>4. c.levels # <<>>
  BY <1>3, EmptySeq
<1>5. Pending' /\ Frames'
  <2>1. Entities' = Entities
    BY <1>2 DEF Entities
  <2>2. Pending'
    BY <1>1, <2>1 DEF Validating, Pending
  <2>3. Frames'
    BY <1>1, <1>2, <2>1 DEF Validating, Frames
  <2> QED
    BY <2>2, <2>3
<1>6. LevelIs(Len(stack), Last(c.levels).target)'
  <2>1. LevelIs(Len(stack), Last(c.levels).target)
    BY <1>1 DEF Validating
  <2> QED
    BY <1>1, <1>2, <1>4, <2>1 DEF LevelIs
<1>7. c'.levels # <<>>
  BY <1>2, <1>4
<1>8. Len(stack') > 1 /\ Last(stack').code # SenderCreator /\ Who' = s.who
  BY <1>3 DEF Who, Depth, Last
<1>9. s.depth # 1
  BY <1>3
<1> QED
  BY <1>1, <1>5, <1>6, <1>7, <1>8, <1>9, StaysInside

\* A contract calls another.
LEMMA PushKeeps ==
  ASSUME CollectorInv, Free, NEW s, Ran1(s), s.depth = Depth, ~StartsLevel(c, s),
         s.op \notin Delayed, NEW self \in Address \ {EntryPoint}, Push(Token, self)
  PROVE  CollectorInv'
<1> DEFINE n == Len(stack)
           e == Last(c.levels).target
<1>1. Top /\ Validating /\ phase = "validation" /\ phase' = "validation" /\ pending' = pending
  BY TopIs DEF Free, CollectorInv
<1>2. /\ op' = op /\ Len(history') > 0
      /\ c.levels # <<>> => c'.levels # <<>> /\ Last(c'.levels).target = e
  BY DEF Ran1
<1>3. /\ Depth > 1 /\ Last(stack).code # SenderCreator /\ c.levels # <<>>
      /\ Last(stack) = stack[Depth]
  BY <1>1, EmptySeq DEF Free, Top
<1>4. Token # SenderCreator
  BY Distinct
<1>5. /\ Frames' /\ Len(stack') = n + 1 /\ n \in Nat \ {0}
      /\ stack'[n + 1].code = Token
      /\ \A k \in 1..n : stack'[k] = stack[k]
  BY <1>1, <1>2, <1>3, <1>4, Pushed
<1>6. Entities' = Entities
  BY <1>2 DEF Entities
<1>7. Pending'
  BY <1>1, <1>6 DEF Validating, Pending
<1>8. LevelIs(n, e) /\ n > 1 /\ stack[n].code # SenderCreator /\ s.depth # 1
  BY <1>1, <1>3 DEF Validating, Depth
<1> HIDE DEF n
<1>9. 1 \in 1..n /\ 2 \in 1..n /\ (n > 2 => 3 \in 1..n) /\ n + 1 > 1 /\ n + 1 # 2
  BY <1>5, <1>8
<1>10. stack'[2] = stack[2] /\ (n > 2 => stack'[3] = stack[3])
  BY <1>5, <1>9
<1>11. stack[2].code = SenderCreator => n > 2
  BY <1>5, <1>8
<1>12. LevelIs(Len(stack), Last(c.levels).target)'
  BY <1>1, <1>2, <1>3, <1>5, <1>8, <1>9, <1>10, <1>11 DEF LevelIs
<1> QED
  BY <1>1, <1>2, <1>3, <1>5, <1>7, <1>8, <1>12, StaysInside

\* A frame ends.
LEMMA PopKeeps ==
  ASSUME CollectorInv, phase = "validation", phase' = "validation", pending' = pending,
         Depth > 1, Last(stack).code = SenderCreator => Head(pending) # Factory,
         NEW s, Ran1(s), s.depth = Depth, ~StartsLevel(c, s), s.op \notin Delayed,
         stack' = Front(stack)
  PROVE  CollectorInv'
<1> DEFINE n == Len(stack)
           e == Last(c.levels).target
<1>1. Top /\ Validating
  BY TopIs DEF CollectorInv
<1>2. /\ op' = op /\ Len(history') > 0
      /\ c.levels # <<>> => c'.levels # <<>> /\ Last(c'.levels).target = e
  BY DEF Ran1
<1>3. c.levels # <<>> /\ Last(stack) = stack[Depth] /\ Depth = n
  BY <1>1, EmptySeq DEF Top, Depth
<1>4. /\ Frames' /\ Len(stack') = n - 1 /\ n \in Nat \ {0, 1}
      /\ \A k \in 1..(n - 1) : stack'[k] = stack[k]
  BY <1>2, Popped
<1>5. Entities' = Entities
  BY <1>2 DEF Entities
<1>6. Pending'
  BY <1>1, <1>5 DEF Validating, Pending
<1>7. LevelIs(n, e) /\ s.depth # 1
  BY <1>1, <1>3 DEF Validating
<1>8. stack[n].code = SenderCreator /\ pending # <<>> => pending[1] # Factory
  BY <1>3
<1>9. SenderCreator # Factory
  BY Distinct
<1> HIDE DEF n, e
<1>10. /\ n - 1 > 1 => 2 \in 1..(n - 1)
       /\ n - 1 > 2 => 3 \in 1..(n - 1)
       /\ n - 1 = 2 => n > 2
       /\ n > 1 /\ (n - 1 > 2 => n > 2) /\ (n - 1 > 1 => n > 2 /\ n # 2)
  BY <1>4
<1>11. ~(pending # <<>> /\ pending[1] = Factory)
  BY <1>7, <1>8 DEF LevelIs
<1>12. /\ n - 1 > 1 => stack'[2] = stack[2]
       /\ n - 1 > 2 => stack'[3] = stack[3]
  BY <1>4, <1>10
<1>13. /\ n > 1 /\ stack[2].code # SenderCreator => e = stack[2].code
       /\ n > 2 /\ stack[2].code = SenderCreator => e = stack[3].code /\ e = Factory
  BY <1>7, <1>10 DEF LevelIs
<1>14. LevelIs(Len(stack), Last(c.levels).target)'
  BY <1>2, <1>3, <1>4, <1>9, <1>10, <1>11, <1>12, <1>13 DEF LevelIs
<1> QED
  BY <1>1, <1>2, <1>3, <1>4, <1>6, <1>7, <1>14, StaysInside

\* EntryPoint and its SenderCreator call.
LEMMA InvokeKeeps ==
  ASSUME CollectorInv, phase = "validation", Invoke
  PROVE  CollectorInv'
<1> DEFINE n == Len(stack)
           e == Last(c.levels).target
           to == Head(pending)
           s == Step(Depth, "CALL", to, Last(stack).self, FALSE, "0xcalldata", FALSE, Who)
<1>1. Top /\ Validating /\ phase' = "validation"
  BY TopIs DEF Invoke, CollectorInv
<1>2. /\ pending # <<>> /\ pending' = Tail(pending) /\ Push(to, to)
      /\ to = Factory => Last(stack).code = SenderCreator
      /\ to # Factory => Depth = 1
  BY DEF Invoke
<1>3. Ran1(s)
  <2>1. Runs("CALL", to, FALSE, "0xcalldata", FALSE)
    BY DEF Invoke
  <2> QED
    BY <2>1, InvokeSound, RunsOn
<1>4. s.depth = Depth /\ s.op = "CALL" /\ s.on = to /\ s.who = Who
  BY DEF Step
<1> HIDE DEF s
<1>5. /\ pending \in Seq(Entities \cup {SenderCreator})
      /\ \A k \in DOMAIN pending :
           /\ pending[k] = SenderCreator => k < Len(pending) /\ pending[k + 1] = Factory
           /\ pending[k] = Factory /\ k > 1 => pending[k - 1] = SenderCreator
  BY <1>1 DEF Validating, Pending
<1> DEFINE P == Len(pending)
<1>6. /\ to = pending[1] /\ to \in Entities \cup {SenderCreator}
      /\ P \in Nat \ {0} /\ DOMAIN pending = 1..P
      /\ pending' \in Seq(Entities \cup {SenderCreator}) /\ Len(pending') = P - 1
      /\ DOMAIN pending' = 1..(P - 1)
      /\ \A k \in 1..(P - 1) : pending'[k] = pending[k + 1]
  <2>1. P \in Nat /\ DOMAIN pending = 1..P /\ P # 0
    BY <1>2, <1>5, LenProperties, EmptySeq
  <2>2. /\ pending' \in Seq(Entities \cup {SenderCreator}) /\ Len(pending') = P - 1
        /\ to \in Entities \cup {SenderCreator}
        /\ \A k \in 1..Len(pending') : pending'[k] = pending[k + 1]
    BY <1>2, <1>5, HeadTailProperties
  <2>3. DOMAIN pending' = 1..Len(pending')
    BY <2>2, LenProperties
  <2> QED
    BY <2>1, <2>2, <2>3
<1>7. op' = op /\ Len(history') > 0
  BY <1>3 DEF Ran1
<1>8. Entities' = Entities
  BY <1>7 DEF Entities
<1>9. to \in Entities \cup {SenderCreator, Token} /\ to \in Address \ {EntryPoint}
  BY <1>6, Distinct DEF Entities, Address, Entity
<1>10. Depth = n
  BY DEF Depth
<1>11. SenderCreator # Factory /\ SenderCreator # EntryPoint
  BY Distinct
<1>12. to = SenderCreator => n = 1
  BY <1>2, <1>10, <1>11
<1>21. to # Token
  BY <1>6, Distinct DEF Entities, Entity
<1>13. /\ Frames' /\ Len(stack') = n + 1 /\ n \in Nat \ {0}
       /\ stack'[n + 1].code = to
       /\ \A k \in 1..n : stack'[k] = stack[k]
  BY <1>2, <1>7, <1>9, <1>12, <1>21, Pushed
<1> HIDE DEF to, P
<1>14. Pending'
  <2>1. ASSUME NEW k \in DOMAIN pending'
        PROVE  /\ pending'[k] = SenderCreator => k < Len(pending') /\ pending'[k + 1] = Factory
               /\ pending'[k] = Factory /\ k > 1 => pending'[k - 1] = SenderCreator
    <3>1. k \in 1..(P - 1) /\ k + 1 \in 1..P /\ k + 1 > 1 /\ k + 1 - 1 = k
      BY <1>6, <2>1
    <3>2. pending'[k] = SenderCreator => k < Len(pending') /\ pending'[k + 1] = Factory
      <4> SUFFICES ASSUME pending'[k] = SenderCreator
                   PROVE  k < Len(pending') /\ pending'[k + 1] = Factory
        OBVIOUS
      <4>1. pending[k + 1] = SenderCreator
        BY <1>6, <3>1
      <4>2. k + 1 < P /\ pending[k + 1 + 1] = Factory
        BY <1>5, <1>6, <3>1, <4>1 DEF P
      <4>3. k + 1 \in 1..(P - 1) /\ k < P - 1
        BY <1>6, <3>1, <4>2
      <4> QED
        BY <1>6, <4>2, <4>3
    <3>3. pending'[k] = Factory /\ k > 1 => pending'[k - 1] = SenderCreator
      <4> SUFFICES ASSUME pending'[k] = Factory, k > 1 PROVE pending'[k - 1] = SenderCreator
        OBVIOUS
      <4>1. pending[k + 1] = Factory
        BY <1>6, <3>1
      <4>2. pending[k] = SenderCreator
        BY <1>5, <1>6, <3>1, <4>1
      <4>3. k - 1 \in 1..(P - 1) /\ k - 1 + 1 = k
        BY <1>6, <3>1
      <4> QED
        BY <1>6, <4>2, <4>3
    <3> QED
      BY <3>2, <3>3
  <2> QED
    BY <1>6, <1>8, <2>1 DEF Pending
<1>15. LevelIs(n, e)
  BY <1>1 DEF Validating
<1> HIDE DEF n, e
\* The first of what is pending then.
<1>16. pending' # <<>> /\ pending'[1] = Factory <=> to = SenderCreator
  <2>1. 1 \in DOMAIN pending
    BY <1>6
  <2>2. to = SenderCreator => 1 < P /\ pending[2] = Factory
    <3>1. pending[1] = SenderCreator => 1 < Len(pending) /\ pending[1 + 1] = Factory
      BY <1>5, <2>1
    <3> QED
      BY <1>6, <3>1 DEF P
  <2>3. pending' # <<>> => P - 1 > 0
    BY <1>6, EmptySeq
  <2>4. P - 1 > 0 => 1 \in 1..(P - 1) /\ 2 \in DOMAIN pending /\ pending'[1] = pending[2]
    BY <1>6
  <2>5. P - 1 > 0 => pending' # <<>>
    BY <1>6, EmptySeq
  <2>6. P - 1 > 0 /\ pending[2] = Factory => pending[1] = SenderCreator
    <3>1. 2 \in DOMAIN pending /\ pending[2] = Factory /\ 2 > 1 => pending[2 - 1] = SenderCreator
      BY <1>5
    <3> QED
      BY <2>4, <3>1
  <2>7. 1 < P => P - 1 > 0
    BY <1>6
  <2> QED
    BY <1>6, <2>2, <2>3, <2>4, <2>5, <2>6, <2>7
<1>17. StartsLevel(c, s) /\ n \in {1, 2} /\ (n = 2 => stack[2].code = SenderCreator /\ to = Factory)
       /\ (n = 1 => to # Factory)
  <2>1. CASE to = Factory
    <3>1. Last(stack).code = SenderCreator /\ Last(stack) = stack[n] /\ n = 2
      BY <1>1, <1>2, <1>10, <2>1 DEF Top
    <3>2. pending[1] = Factory
      BY <1>6, <2>1
    <3>3. e = SenderCreator /\ c.levels # <<>>
      BY <1>2, <1>15, <3>1, <3>2 DEF LevelIs
    <3> QED
      BY <1>4, <1>10, <2>1, <3>1, <3>3 DEF StartsLevel, e
  <2>2. CASE to # Factory
    BY <1>2, <1>4, <1>10, <2>2 DEF StartsLevel
  <2> QED
    BY <2>1, <2>2
<1>18. c'.levels # <<>> /\ Last(c'.levels).target = to
  BY <1>3, <1>4, <1>17 DEF Ran1
<1>19. LevelIs(Len(stack), Last(c.levels).target)'
  <2>1. CASE n = 1
    <3>1. Len(stack') = 2 /\ stack'[2].code = to
      BY <1>13, <2>1
    <3>2. to # Factory
      BY <1>17, <2>1
    <3> QED
      BY <1>16, <1>18, <3>1, <3>2 DEF LevelIs
  <2>2. CASE n = 2
    <3>1. Len(stack') = 3 /\ stack'[3].code = to /\ stack'[2].code = SenderCreator /\ to = Factory
      BY <1>13, <1>17, <2>2
    <3>2. to # SenderCreator
      BY <1>11, <3>1
    <3> QED
      BY <1>16, <1>18, <3>1, <3>2 DEF LevelIs
  <2> QED
    BY <1>17, <2>1, <2>2
<1>20. s.op # "LOG1" /\ s.op \notin Delayed
  BY <1>4 DEF Delayed, ExtOps
<1> QED
  BY <1>1, <1>3, <1>13, <1>14, <1>18, <1>19, <1>20, StaysInside

LEMMA InitHolds == Init => CollectorInv
<1> SUFFICES ASSUME Init PROVE CollectorInv
  OBVIOUS
<1>1. /\ op \in [factory : BOOLEAN, paymaster : BOOLEAN]
      /\ stack = <<[code |-> EntryPoint, self |-> EntryPoint]>>
      /\ phase = "validation" /\ history = <<>> /\ c = Collected
  BY DEF Init
<1>2. Records(history, c)
  <2>1. /\ c.levels = <<>> /\ c.lastOp = "" /\ c.lastThree = <<>> /\ c.keccak = {}
        /\ c.calls = {} /\ c.stop = FALSE
    BY <1>1 DEF Collected
  <2>2. c \in ColType
    BY <1>1, EmptySeq DEF Collected, ColType
  <2>3. history \in Seq(StepType) /\ Len(history) = 0 /\ DOMAIN history = {}
    <3>1. history \in Seq(StepType)
      BY <1>1, EmptySeq
    <3>2. Len(history) = 0
      BY <1>1
    <3>3. DOMAIN history = 1..0
      BY <3>1, <3>2, LenProperties
    <3>4. 1..0 = {}
      OBVIOUS
    <3> QED
      BY <3>1, <3>2, <3>3, <3>4, Zenon
  <2>4. DOMAIN c.levels = {} /\ Len(c.lastThree) = 0
    <3>1. c.levels \in Seq(LevelType) /\ Len(c.levels) = 0 /\ Len(c.lastThree) = 0
      BY <2>1, EmptySeq
    <3>2. DOMAIN c.levels = 1..0 /\ 1..0 = {}
      BY <3>1, LenProperties
    <3> QED
      BY <3>1, <3>2
  <2>5. AllKept(history, c) /\ AllJustified(history, c)
    BY <2>3, <2>4 DEF AllKept, AllJustified
  <2>6. CallsKept(history, c) /\ HashesKept(history, c)
    BY <2>1, <2>3 DEF CallsKept, HashesKept
  <2>7. WindowKept(history, c)
    <3> DEFINE n == Len(c.lastThree)
               L == Len(history)
    <3>1. L = 0 /\ n = 0
      BY <2>3, <2>4
    <3> HIDE DEF n, L
    <3>2. n \in 0..3 /\ n <= L /\ (n < 3 => n = L \/ history[L - n].op = "RETURN")
      BY <3>1
    <3>3. ASSUME NEW k \in 1..n PROVE FALSE
      BY <3>1, <3>3
    <3>4. \A k \in 1..n : c.lastThree[k] = [op |-> history[L - n + k].op,
                                         on |-> history[L - n + k].on]
      BY <3>3
    <3> QED
      BY <3>2, <3>4 DEF WindowKept, n, L
  <2>8. LastKept(history, c)
    <3>1. ~(c.lastOp = "GAS")
      BY <2>1
    <3>2. ~(Len(history) > 0 /\ history[Len(history)].op = "GAS")
      BY <2>3
    <3> QED
      BY <3>1, <3>2, Zenon DEF LastKept
  <2> QED
    BY <2>2, <2>3, <2>5, <2>6, <2>7, <2>8 DEF Records
<1>3. Len(history) = 0 /\ ~c.stop
  BY <1>1, EmptySeq DEF Collected
<1>4. Frames /\ Len(stack) = 1
  <2>1. EntryPoint \in Address
    BY DEF Address
  <2>2. stack \in Seq([code : Address, self : Address]) /\ Len(stack) = 1
    BY <1>1, <2>1
  <2>3. stack[1] = [code |-> EntryPoint, self |-> EntryPoint]
    BY <1>1
  <2> QED
    BY <2>2, <2>3 DEF Frames
<1> DEFINE A == IF op.factory THEN <<SenderCreator, Factory>> ELSE <<>>
           X == A \o <<Sender>>
           B == IF op.paymaster THEN <<Paymaster>> ELSE <<>>
           S == Entities \cup {SenderCreator}
<1>5. pending = X \o B
  BY DEF Init
<1>6. /\ Sender \in S /\ SenderCreator \in S
      /\ op.factory => Factory \in S
      /\ op.paymaster => Paymaster \in S
  BY DEF Entities
<1>7. /\ SenderCreator # Factory /\ Sender \notin {SenderCreator, Factory}
      /\ Paymaster \notin {SenderCreator, Factory}
  BY Distinct
<1>8. op.factory \in BOOLEAN /\ op.paymaster \in BOOLEAN
  BY <1>1
<1> DEFINE M == Len(A)
<1>13. /\ A \in Seq(S) /\ B \in Seq(S) /\ <<Sender>> \in Seq(S)
       /\ op.factory => M = 2 /\ A[1] = SenderCreator /\ A[2] = Factory
       /\ ~op.factory => M = 0
       /\ op.paymaster => Len(B) = 1 /\ B[1] = Paymaster
       /\ ~op.paymaster => Len(B) = 0
  <2>1. <<Sender>> \in Seq(S)
    BY <1>6
  <2>2. /\ op.factory => A \in Seq(S) /\ M = 2 /\ A[1] = SenderCreator /\ A[2] = Factory
        /\ ~op.factory => A \in Seq(S) /\ M = 0
    <3> HIDE DEF S
    <3>1. CASE op.factory
      BY <1>6, <3>1
    <3>2. CASE ~op.factory
      BY <3>2, EmptySeq
    <3> QED
      BY <3>1, <3>2
  <2>3. /\ op.paymaster => B \in Seq(S) /\ Len(B) = 1 /\ B[1] = Paymaster
        /\ ~op.paymaster => B \in Seq(S) /\ Len(B) = 0
    <3> HIDE DEF S
    <3>1. CASE op.paymaster
      BY <1>6, <3>1
    <3>2. CASE ~op.paymaster
      BY <3>2, EmptySeq
    <3> QED
      BY <3>1, <3>2
  <2> HIDE DEF A, B, S, M
  <2> QED
    BY <1>8, <2>1, <2>2, <2>3
<1> HIDE DEF A, B, S
<1>14. /\ X \in Seq(S) /\ Len(X) = M + 1
       /\ \A i \in 1..(M + 1) : X[i] = IF i <= M THEN A[i] ELSE <<Sender>>[i - M]
  <2>1. A \in Seq(S) /\ M = Len(A) /\ <<Sender>> \in Seq(S) /\ Len(<<Sender>>) = 1
    BY <1>13
  <2> HIDE DEF M
  <2> QED
    BY <2>1, ConcatProperties
<1> HIDE DEF X
<1>15. /\ pending \in Seq(S) /\ Len(pending) = M + 1 + Len(B)
       /\ \A i \in 1..(M + 1 + Len(B)) :
            pending[i] = IF i <= M + 1 THEN X[i] ELSE B[i - (M + 1)]
  BY <1>5, <1>13, <1>14, ConcatProperties
<1> HIDE DEF M
<1> DEFINE Whole == /\ pending \in Seq(S) /\ pending # <<>> /\ pending[1] # Factory
                    /\ \A k \in 1..Len(pending) :
                         /\ pending[k] = SenderCreator => k < Len(pending) /\ pending[k + 1] = Factory
                         /\ pending[k] = Factory /\ k > 1 => pending[k - 1] = SenderCreator
<1>9. Whole
  <2>1. CASE op.factory /\ op.paymaster
    <3>1. pending \in Seq(S) /\ Len(pending) = 4
      <4>1. M = 2 /\ Len(B) = 1
        BY <1>13, <2>1
      <4> QED
        BY <1>15, <4>1
    <3>2. pending \in Seq(S) /\ Len(pending) = 4 /\ pending # <<>>
      BY <3>1, EmptySeq
    <3>3. pending[1] = SenderCreator /\ pending[2] = Factory /\ pending[3] = Sender /\ pending[4] = Paymaster
      <4>1. M = 2 /\ Len(B) = 1 /\ A[1] = SenderCreator /\ A[2] = Factory /\ B[1] = Paymaster
        BY <1>13, <2>1
      <4>2. X[1] = A[1] /\ X[2] = A[2] /\ X[3] = <<Sender>>[1]
        BY <1>14, <4>1
      <4>3. pending[1] = X[1] /\ pending[2] = X[2] /\ pending[3] = X[3] /\ pending[4] = B[1]
        BY <1>15, <4>1
      <4> QED
        BY <4>1, <4>2, <4>3
    <3>4. \A k \in 1..4 : k = 1 \/ k = 2 \/ k = 3 \/ k = 4
      OBVIOUS
    <3>5. ASSUME NEW k \in 1..4
          PROVE  /\ pending[k] = SenderCreator => k < 4 /\ pending[k + 1] = Factory
                 /\ pending[k] = Factory /\ k > 1 => pending[k - 1] = SenderCreator
      BY <1>7, <3>3, <3>4
    <3> QED
      BY <1>7, <3>2, <3>3, <3>5
  <2>2. CASE op.factory /\ ~op.paymaster
    <3>1. pending \in Seq(S) /\ Len(pending) = 3
      BY <1>13, <1>15, <2>2
    <3>2. pending \in Seq(S) /\ Len(pending) = 3 /\ pending # <<>>
      BY <3>1, EmptySeq
    <3>3. pending[1] = SenderCreator /\ pending[2] = Factory /\ pending[3] = Sender
      BY <1>13, <1>14, <1>15, <2>2
    <3>4. \A k \in 1..3 : k = 1 \/ k = 2 \/ k = 3
      OBVIOUS
    <3>5. ASSUME NEW k \in 1..3
          PROVE  /\ pending[k] = SenderCreator => k < 3 /\ pending[k + 1] = Factory
                 /\ pending[k] = Factory /\ k > 1 => pending[k - 1] = SenderCreator
      BY <1>7, <3>3, <3>4
    <3> QED
      BY <1>7, <3>2, <3>3, <3>5
  <2>3. CASE ~op.factory /\ op.paymaster
    <3>1. pending \in Seq(S) /\ Len(pending) = 2
      <4>1. M = 0 /\ Len(B) = 1
        BY <1>13, <2>3
      <4> QED
        BY <1>15, <4>1
    <3>2. pending \in Seq(S) /\ Len(pending) = 2 /\ pending # <<>>
      BY <3>1, EmptySeq
    <3>3. pending[1] = Sender /\ pending[2] = Paymaster
      BY <1>13, <1>14, <1>15, <2>3
    <3>4. \A k \in 1..2 : k = 1 \/ k = 2
      OBVIOUS
    <3>5. ASSUME NEW k \in 1..2
          PROVE  /\ pending[k] = SenderCreator => k < 2 /\ pending[k + 1] = Factory
                 /\ pending[k] = Factory /\ k > 1 => pending[k - 1] = SenderCreator
      BY <1>7, <3>3, <3>4
    <3> QED
      BY <1>7, <3>2, <3>3, <3>5
  <2>4. CASE ~op.factory /\ ~op.paymaster
    <3>1. pending \in Seq(S) /\ Len(pending) = 1
      BY <1>13, <1>15, <2>4
    <3>2. pending \in Seq(S) /\ Len(pending) = 1 /\ pending # <<>>
      BY <3>1, EmptySeq
    <3>3. pending[1] = Sender
      BY <1>13, <1>14, <1>15, <2>4
    <3>4. \A k \in 1..1 : k = 1
      OBVIOUS
    <3> QED
      BY <1>7, <3>2, <3>3, <3>4
  <2> QED
    BY <1>8, <2>1, <2>2, <2>3, <2>4
<1>10. Pending
  <2>1. DOMAIN pending = 1..Len(pending)
    BY <1>9, LenProperties
  <2> QED
    BY <1>9, <2>1 DEF Pending, S
<1>11. LevelIs(Len(stack), Last(c.levels).target)
  BY <1>4, <1>9 DEF LevelIs
<1>12. Validating
  BY <1>3, <1>4, <1>9, <1>10, <1>11 DEF Validating
<1>16. DOMAIN history = {}
  <2>1. history \in Seq(StepType)
    BY <1>2 DEF Records
  <2>2. DOMAIN history = 1..0 /\ 1..0 = {}
    BY <1>3, <2>1, LenProperties
  <2> QED
    BY <2>2
<1> QED
  BY <1>1, <1>2, <1>12, <1>16 DEF CollectorInv

\* Once EntryPoint has logged BeforeExecution nothing is kept any more.
LEMMA AfterwardsKept ==
  ASSUME CollectorInv, phase # "validation", phase' \in {"execution", "over"},
         NEW name, NEW on, NEW low, NEW m, NEW v, Runs(name, on, low, m, v)
  PROVE  CollectorInv'
<1>1. Validated
  BY DEF CollectorInv
<1>2. history' = history /\ c' = c /\ op' = op
  BY <1>1 DEF Runs, Collect, Validated
<1>3. Entities' = Entities
  BY <1>2 DEF Entities
<1> QED
  BY <1>1, <1>2, <1>3 DEF CollectorInv, Validated

LEMMA NextKeeps == CollectorInv /\ [Next]_vars => CollectorInv'
<1> SUFFICES ASSUME CollectorInv, [Next]_vars PROVE CollectorInv'
  OBVIOUS
<1> DEFINE S(name, on, low, m, v) == Step(Depth, name, on, Last(stack).self, low, m, v, Who)
<1>1. \A name, on, low, m, v :
        /\ S(name, on, low, m, v).depth = Depth /\ S(name, on, low, m, v).who = Who
        /\ S(name, on, low, m, v).op = name
  BY DEF Step
<1>2. phase = "validation" => Top
  BY TopIs
<1>3. phase \in {"validation", "execution", "over"}
  BY DEF CollectorInv
\* A step of a contract starts no level.
<1>4. ASSUME Free, NEW name, NEW on, NEW low, NEW m, NEW v
      PROVE  ~StartsLevel(c, S(name, on, low, m, v))
  <2>1. Top /\ Depth > 1 /\ Last(stack).code # SenderCreator
    BY <1>2, <1>4 DEF Free
  <2>2. Depth # 1 /\ Who # SenderCreator /\ Last(c.levels).target = Who
    BY <2>1 DEF Top
  <2> QED
    BY <1>1, <2>2 DEF StartsLevel
<1>5. ASSUME Free, NEW name \in Ops, NEW on \in Operand, NEW low \in BOOLEAN,
             low => name = "SSTORE", name \notin CallOps, Quiet(name, on, low)
      PROVE  CollectorInv'
  <2>1. Sound(S(name, on, low, "0x", FALSE))
    BY <1>5, FreeSound DEF Carried
  <2>2. Ran1(S(name, on, low, "0x", FALSE))
    BY <1>5, <2>1, RunsOn DEF Quiet, Free
  <2> DEFINE s == S(name, on, low, "0x", FALSE)
  <2>3. Ran1(s) /\ s.depth = Depth /\ s.who = Who /\ ~StartsLevel(c, s) /\ stack' = stack
    <3>1. s.depth = Depth /\ s.who = Who
      BY DEF Step
    <3>2. ~StartsLevel(c, s)
      BY <1>4, <1>5
    <3> QED
      BY <1>5, <2>2, <3>1, <3>2 DEF Quiet
  <2> HIDE DEF s
  <2> QED
    BY <1>5, <2>3, QuietKeeps
<1>6. EntryPoint \in Operand /\ Token \in Operand /\ Ghost \in Operand
  BY DEF Operand, Address
<1>7. CASE Invoke
  <2>1. CASE phase = "validation"
    BY <1>7, <2>1, InvokeKeeps
  <2>2. CASE phase # "validation"
    BY <1>3, <1>7, <2>2, AfterwardsKept DEF Invoke
  <2> QED
    BY <2>1, <2>2
<1>8. CASE Compute
  <2>1. PICK name \in Simple : Quiet(name, EntryPoint, FALSE)
    BY <1>8 DEF Compute
  <2>2. name \in Ops /\ name \notin CallOps
    BY SimpleOps
  <2> QED
    BY <1>5, <1>6, <1>8, <2>1, <2>2 DEF Compute
<1>9. CASE Measure
  <2>1. PICK a \in {EntryPoint, Token, Ghost} : Quiet("EXTCODESIZE", a, FALSE)
    BY <1>9 DEF Measure
  <2>2. "EXTCODESIZE" \in Ops /\ "EXTCODESIZE" \notin CallOps
    BY DEF Ops, ExtOps, CallOps
  <2> QED
    BY <1>5, <1>6, <1>9, <2>1, <2>2 DEF Measure
<1>10. CASE Hash
  <2>1. PICK s \in Slots : Quiet("KECCAK256", s.of, FALSE)
    BY <1>10 DEF Hash
  <2>2. "KECCAK256" \in Ops /\ "KECCAK256" \notin CallOps /\ s.of \in Operand
    BY CollectorAssumption DEF CollectorAssumption, Ops, CallOps, Operand, Address
  <2> QED
    BY <1>5, <1>10, <2>1, <2>2 DEF Hash
<1>11. CASE Access
  <2>1. PICK name \in Accesses, s \in Slots, low \in BOOLEAN :
          (low => name = "SSTORE" /\ s.kind = "word") /\ Quiet(name, s, low)
    BY <1>11 DEF Access
  <2>2. name \in Ops /\ name \notin CallOps /\ s \in Operand
    BY CollectorAssumption DEF CollectorAssumption, Ops, StorageOps, CallOps, Operand
  <2> QED
    BY <1>5, <1>11, <2>1, <2>2 DEF Access
<1>12. CASE Call
  <2>1. PICK a \in {EntryPoint, Token, Ghost}, m \in Methods, v \in BOOLEAN :
          /\ Runs("CALL", a, FALSE, m, v)
          /\ IF a = Token THEN Push(a, a) ELSE UNCHANGED stack
    BY <1>12 DEF Call
  <2>2. Free /\ phase = "validation"
    BY <1>12 DEF Call, Free
  <2>3. "CALL" \in Ops /\ m \in Carried /\ "CALL" \notin Delayed
    BY DEF Ops, CallOps, Carried, Delayed, ExtOps
  <2>4. Ran1(S("CALL", a, FALSE, m, v))
    <3>1. Sound(S("CALL", a, FALSE, m, v))
      BY <1>6, <2>2, <2>3, FreeSound
    <3> QED
      BY <2>1, <2>2, <3>1, RunsOn
  <2> DEFINE s == S("CALL", a, FALSE, m, v)
  <2>7. /\ Ran1(s) /\ s.depth = Depth /\ s.who = Who /\ ~StartsLevel(c, s)
        /\ s.op \notin Delayed
    <3>1. Ran1(s)
      BY <2>4
    <3>2. s.depth = Depth /\ s.who = Who /\ s.op \notin Delayed
      BY <2>3 DEF Step
    <3>3. ~StartsLevel(c, s)
      BY <1>4, <2>2
    <3> QED
      BY <3>1, <3>2, <3>3
  <2> HIDE DEF s
  <2>5. CASE a = Token
    <3>1. Token \in Address \ {EntryPoint}
      BY Distinct DEF Address
    <3> QED
      BY <2>1, <2>2, <2>5, <2>7, <3>1, PushKeeps
  <2>6. CASE a # Token
    BY <2>1, <2>2, <2>6, <2>7, QuietKeeps
  <2> QED
    BY <2>5, <2>6
<1>13. CASE DelegateCall
  <2>1. /\ Runs("DELEGATECALL", Token, FALSE, "0xcalldata", FALSE) /\ Push(Token, Last(stack).self)
        /\ Free /\ phase = "validation"
    BY <1>13 DEF DelegateCall, Free
  <2>2. "DELEGATECALL" \in Ops /\ "0xcalldata" \in Carried /\ "DELEGATECALL" \notin Delayed
    BY DEF Ops, CallOps, Carried, Delayed, ExtOps
  <2>3. Token # EntryPoint
    BY Distinct
  <2>4. Ran1(S("DELEGATECALL", Token, FALSE, "0xcalldata", FALSE))
    <3>1. Sound(S("DELEGATECALL", Token, FALSE, "0xcalldata", FALSE))
      BY <1>6, <2>1, <2>2, <2>3, FreeSound
    <3> QED
      BY <2>1, <3>1, RunsOn
  <2>5. Last(stack).self \in Address \ {EntryPoint}
    BY <1>2, <2>1 DEF Top, Free
  <2> DEFINE s == S("DELEGATECALL", Token, FALSE, "0xcalldata", FALSE)
  <2>6. Ran1(s) /\ s.depth = Depth /\ ~StartsLevel(c, s) /\ s.op \notin Delayed
    <3>1. Ran1(s)
      BY <2>4
    <3>2. s.depth = Depth /\ s.op \notin Delayed
      BY <2>2 DEF Step
    <3>3. ~StartsLevel(c, s)
      BY <1>4, <2>1
    <3> QED
      BY <3>1, <3>2, <3>3
  <2> HIDE DEF s
  <2> QED
    BY <2>1, <2>5, <2>6, PushKeeps
<1>14. ASSUME NEW name \in {"RETURN", "STOP"} PROVE name \notin Delayed /\ name \notin CallOps
  BY DEF Delayed, ExtOps, CallOps
<1>15. CASE Leave
  <2>1. /\ Depth > 1 /\ Runs("RETURN", EntryPoint, FALSE, "0x", FALSE) /\ stack' = Front(stack)
        /\ Last(stack).code = SenderCreator => Head(pending) # Factory
        /\ pending' = pending /\ phase' = phase
    BY <1>15 DEF Leave
  <2>2. CASE phase = "validation"
    <3>1. Ran1(S("RETURN", EntryPoint, FALSE, "0x", FALSE))
      BY <2>1, <2>2, OtherSound, RunsOn
    <3>2. ~StartsLevel(c, S("RETURN", EntryPoint, FALSE, "0x", FALSE))
      BY <1>1 DEF StartsLevel
    <3> DEFINE s == S("RETURN", EntryPoint, FALSE, "0x", FALSE)
    <3>3. Ran1(s) /\ s.depth = Depth /\ ~StartsLevel(c, s) /\ s.op \notin Delayed
      <4>1. Ran1(s)
        BY <3>1
      <4>2. s.depth = Depth /\ s.op \notin Delayed
        BY <1>14 DEF Step
      <4>3. ~StartsLevel(c, s)
        BY <3>2
      <4> QED
        BY <4>1, <4>2, <4>3
    <3> HIDE DEF s
    <3> QED
      BY <2>1, <2>2, <3>3, PopKeeps
  <2>3. CASE phase # "validation"
    BY <1>3, <2>1, <2>3, AfterwardsKept
  <2> QED
    BY <2>2, <2>3
<1>16. CASE Halt
  <2>1. /\ Free /\ Depth > 1 /\ Runs("STOP", EntryPoint, FALSE, "0x", FALSE)
        /\ stack' = Front(stack) /\ Last(stack).code # SenderCreator
        /\ pending' = pending /\ phase' = phase /\ phase = "validation"
    BY <1>16 DEF Halt, Free
  <2>2. "STOP" \in Ops /\ "0x" \in Carried
    BY DEF Ops, Carried
  <2>3. Ran1(S("STOP", EntryPoint, FALSE, "0x", FALSE))
    <3>1. Sound(S("STOP", EntryPoint, FALSE, "0x", FALSE))
      BY <1>6, <1>14, <2>1, <2>2, FreeSound
    <3> QED
      BY <2>1, <3>1, RunsOn
  <2> DEFINE s == S("STOP", EntryPoint, FALSE, "0x", FALSE)
  <2>4. Ran1(s) /\ s.depth = Depth /\ ~StartsLevel(c, s) /\ s.op \notin Delayed
    <3>1. Ran1(s)
      BY <2>3
    <3>2. s.depth = Depth /\ s.op \notin Delayed
      BY <1>14 DEF Step
    <3>3. ~StartsLevel(c, s)
      BY <1>4, <2>1
    <3> QED
      BY <3>1, <3>2, <3>3
  <2> HIDE DEF s
  <2> QED
    BY <2>1, <2>4, PopKeeps
<1>17. CASE BeforeExecution
  <2>1. /\ Depth = 1 /\ pending = <<>> /\ phase = "validation" /\ phase' = "execution"
        /\ Runs("LOG1", EntryPoint, FALSE, "0x", FALSE)
    BY <1>17 DEF BeforeExecution
  <2>2. Ran1(S("LOG1", EntryPoint, FALSE, "0x", FALSE))
    BY <2>1, OtherSound, RunsOn
  <2> DEFINE s == S("LOG1", EntryPoint, FALSE, "0x", FALSE)
  <2>3. s.op = "LOG1" /\ s.depth = 1 /\ Ran1(s)
    <3>1. s.op = "LOG1" /\ s.depth = Depth
      BY DEF Step
    <3>2. Ran1(s)
      BY <2>2
    <3> HIDE DEF s
    <3> QED
      BY <2>1, <3>1, <3>2
  <2> HIDE DEF s
  <2>4. ~StartsLevel(c, s) /\ Stops(c, s)
    BY <2>3 DEF StartsLevel, Stops
  <2>5. c.levels # <<>>
    BY <2>1 DEF CollectorInv, Validating
  <2>6. "LOG1" \notin Delayed
    BY DEF Delayed, ExtOps
  <2>7. /\ Records(history', c') /\ c'.stop /\ op' = op /\ Len(history') > 0
        /\ Last(history').op \notin Delayed /\ c'.levels # <<>>
        /\ \A i \in DOMAIN history' :
             history'[i].who \in Entities' \cup {EntryPoint, SenderCreator}
    BY <2>3, <2>4, <2>5, <2>6 DEF Ran1
  <2> QED
    BY <2>1, <2>7 DEF CollectorInv, Validated
<1>18. CASE Execute
  <2>1. phase = "execution" /\ phase' = phase /\ Runs("NUMBER", EntryPoint, FALSE, "0x", FALSE)
    BY <1>18 DEF Execute, Quiet
  <2> QED
    BY <2>1, AfterwardsKept
<1>19. CASE Finish
  <2>1. phase = "execution" /\ phase' = "over" /\ Runs("RETURN", EntryPoint, FALSE, "0x", FALSE)
    BY <1>19 DEF Finish
  <2> QED
    BY <2>1, AfterwardsKept
<1>20. CASE UNCHANGED vars
  BY <1>20 DEF vars, CollectorInv, Validated, Validating, Pending, Frames, LevelIs, Entities, Who, Depth
<1> QED
  BY <1>7, <1>8, <1>9, <1>10, <1>11, <1>12, <1>13, <1>15, <1>16, <1>17, <1>18, <1>19, <1>20
  DEF Next

\* What the tracer keeps is, at every step, what ran: the inductive invariant.
THEOREM TracerKeepsWhatRan == CollectorSpec => []CollectorInv
<1>1. Init => CollectorInv
  BY InitHolds
<1>2. CollectorInv /\ [Next]_vars => CollectorInv'
  BY NextKeeps
<1> QED
  BY <1>1, <1>2, PTL DEF CollectorSpec

-----------------------------------------------------------------------------
(* The properties.                                                          *)

\* A contract whose code the entities ran or looked at is among those that the
\* parser returns, for their code hashes to be compared at the second validation
\* (TracerResultParser.ts:176): for any contracts, of any length.
THEOREM ReferencedStaysComplete == CollectorSpec => []ReferencedIsComplete
<1>1. CollectorInv => ReferencedIsComplete
  <2> SUFFICES ASSUME CollectorInv, NEW i \in DOMAIN history, history[i].who \in Entities,
                      history[i].op \in ExtOps \cup CallOps
               PROVE  history[i].on \in Referenced(c)
    BY DEF ReferencedIsComplete
  <2>1. Records(history, c)
    BY DEF CollectorInv
  <2>2. history[i].depth > 1
    <3>1. Sound(history[i])
      BY <2>1 DEF Records
    <3>2. history[i].who # EntryPoint
      BY Distinct DEF Entities
    <3> QED
      BY <3>1, <3>2 DEF Sound, StepType
  <2>3. PICK k \in DOMAIN c.levels : KeptAt(history, c, i, k)
    BY <2>1, <2>2 DEF Records, AllKept
  <2>4. history[i].on \in c.levels[k].sizes
    BY <2>3 DEF KeptAt, Kept
  <2> QED
    BY <2>4 DEF Referenced
<1> QED
  BY <1>1, TracerKeepsWhatRan, PTL

\* A slot is held to be an address's by the parser when, in the validation, it was.
LEMMA SlotsAreAssociated ==
  ASSUME CollectorInv, NEW slot, NEW a \in Entity
  PROVE  AssociatedWith(slot, a, c) <=> BelongsTo(slot, a)
<1>1. a \in Operand
  BY DEF Operand, Address
<1>2. a \in c.keccak <=> \E j \in DOMAIN history : history[j].op = "KECCAK256" /\ history[j].on = a
  BY <1>1 DEF CollectorInv, Records, HashesKept
<1> QED
  BY <1>2 DEF AssociatedWith, BelongsTo

\* GAS is taken for the gas of a call when the name of the next opcode contains CALL,
\* CALLER's too, and is not counted then (BundlerCollectorTracer.ts:315-318).
HiddenGas(i) ==
  /\ history[i].op = "GAS"
  /\ history[i + 1].op \in NamedCall \ CallOps

LEMMA AcceptedObeys ==
  ASSUME CollectorInv, Over, NEW staked \in SUBSET Entities, Accepts(c, staked),
         NEW i \in DOMAIN history, ~Missed(i), ~HiddenGas(i)
  PROVE  Obeys(i, staked)
<1> SUFFICES ASSUME history[i].who \in Entities PROVE Obeys(i, staked)
  BY DEF Obeys
<1> DEFINE s == history[i]
           e == s.who
<1>1. Records(history, c) /\ Validated
  BY DEF CollectorInv, Over
<1>2. Sound(s) /\ s \in StepType
  BY <1>1 DEF Records, Sound
<1>3. e \in Entities /\ e \in Entity /\ e # EntryPoint /\ e # SenderCreator
  BY Distinct DEF Entities, Entity
<1>4. s.depth > 1 /\ s.self # EntryPoint
  BY <1>2, <1>3 DEF Sound, StepType
<1>5. PICK k \in DOMAIN c.levels : KeptAt(history, c, i, k)
  BY <1>1, <1>4 DEF Records, AllKept
<1> DEFINE lev == c.levels[k]
<1>6. Kept(s, lev) /\ lev.target = e
  BY <1>3, <1>5 DEF KeptAt, Kept
<1>7. LevelAllowed(e, lev, c, staked)
  BY <1>3, <1>6 DEF Accepts
<1>8. s.op \in Delayed => KeptLater(s, history[i + 1], lev) /\ i + 1 \in DOMAIN history
  <2> SUFFICES ASSUME s.op \in Delayed
               PROVE  KeptLater(s, history[i + 1], lev) /\ i + 1 \in DOMAIN history
    OBVIOUS
  <2>1. history \in Seq(StepType)
    BY <1>1 DEF Records
  <2>2. DOMAIN history = 1..Len(history) /\ Len(history) \in Nat
    BY <2>1, LenProperties
  <2>3. i # Len(history)
    BY <1>1 DEF Validated, Last
  <2>4. i < Len(history) /\ i + 1 \in DOMAIN history
    BY <2>2, <2>3
  <2> QED
    BY <1>5, <2>4 DEF KeptAt
<1> HIDE DEF s, lev
<1>9. ~s.low
  BY <1>6, <1>7 DEF Kept, LevelAllowed
<1>10. s.op \notin Banned \ {"GAS"}
  BY <1>6, <1>7 DEF Kept, LevelAllowed, Banned, Unimportant
<1>11. s.op = "GAS" => history[i + 1].op \in CallOps
  <2> SUFFICES ASSUME s.op = "GAS" PROVE history[i + 1].op \in CallOps
    OBVIOUS
  <2>1. history[i + 1].op \in NamedCall \/ "GAS" \in lev.opcodes
    BY <1>8 DEF Delayed, KeptLater
  <2>2. "GAS" \notin lev.opcodes
    BY <1>7 DEF LevelAllowed, Banned
  <2> QED
    BY <2>1, <2>2 DEF HiddenGas, s
<1>12. s.op \in StakedOnly => e \in staked
  BY <1>6, <1>7 DEF Kept, LevelAllowed, StakedOnly, Unimportant
<1>13. s.op \in ExtOps \cup CallOps => s.on # Ghost
  BY <1>6, <1>7 DEF Kept, LevelAllowed
<1>14. s.op \in ExtOps /\ s.on = EntryPoint =>
         s.op = "EXTCODESIZE" /\ history[i + 1].op = "ISZERO"
  BY <1>7, <1>8 DEF LevelAllowed, KeptLater, Missed, Delayed, s
<1>15. s.op \in CallOps => CallOf(s) \in c.calls
  BY <1>1 DEF Records, CallsKept, s
<1>16. IllegalCalls(c) = {}
  BY DEF Accepts
<1>17. /\ CallOf(s).to = s.on /\ CallOf(s).from = s.self /\ CallOf(s).method = s.method
       /\ CallOf(s).value = s.value
  BY DEF CallOf
<1>18. s.op \in CallOps /\ s.on = EntryPoint => s.method \in {"0x", "0xb760faf9"}
  <2> SUFFICES ASSUME s.op \in CallOps, s.on = EntryPoint PROVE s.method = "0x"
    OBVIOUS
  <2>1. s.method \in {"0x", "depositTo"}
    BY <1>4, <1>15, <1>16, <1>17 DEF IllegalCalls
  <2>2. s.method \in Methods
    BY <1>2 DEF Sound
  <2> QED
    BY <2>1, <2>2, CollectorAssumption DEF CollectorAssumption
<1>19. s.op \in CallOps /\ s.value => s.on = EntryPoint
  BY <1>15, <1>16, <1>17 DEF IllegalCalls
<1>20. s.op \in StorageOps => StorageObeys(s, staked)
  <2> SUFFICES ASSUME s.op \in StorageOps PROVE StorageObeys(s, staked)
    OBVIOUS
  <2>1. PICK o \in StorageOps : <<s.self, s.on, o>> \in lev.access
    BY <1>6 DEF Kept, StorageOps
  <2>2. StorageAllowed(e, lev, c, staked)
    BY <1>7 DEF LevelAllowed
  <2>3. \/ s.self \in {Sender, EntryPoint}
        \/ SlotNeeds(e, lev, s.self, s.on, c, staked) = "nothing"
        \/ SlotNeeds(e, lev, s.self, s.on, c, staked) = "stake" /\ e \in staked
    BY <2>1, <2>2 DEF StorageAllowed
  <2>4. AssociatedWith(s.on, Sender, c) <=> BelongsTo(s.on, Sender)
    BY SlotsAreAssociated DEF Entity
  <2>5. AssociatedWith(s.on, e, c) <=> BelongsTo(s.on, e)
    BY <1>3, SlotsAreAssociated
  <2>6. ~WritesTo(lev, s.self, s.on) => s.op \in {"SLOAD", "TLOAD"}
    BY <1>6 DEF WritesTo, Kept, StorageOps
  <2>7. CASE s.self \in {Sender, EntryPoint}
    BY <2>7 DEF StorageObeys
  <2>8. CASE SlotNeeds(e, lev, s.self, s.on, c, staked) = "nothing"
    <3>1. BelongsTo(s.on, Sender) /\ SenderSlotsFree(e, staked)
      BY <2>4, <2>8 DEF SlotNeeds
    <3> QED
      BY <3>1 DEF StorageObeys, SenderSlotsFree
  <2>9. CASE SlotNeeds(e, lev, s.self, s.on, c, staked) = "stake" /\ e \in staked
    <3>1. \/ BelongsTo(s.on, Sender) \/ BelongsTo(s.on, e) \/ s.self = e
          \/ s.op \in {"SLOAD", "TLOAD"}
      BY <2>4, <2>5, <2>6, <2>9 DEF SlotNeeds
    <3> QED
      BY <2>9, <3>1 DEF StorageObeys
  <2> QED
    BY <2>3, <2>7, <2>8, <2>9
<1> QED
  BY <1>9, <1>10, <1>11, <1>12, <1>13, <1>14, <1>18, <1>19, <1>20 DEF Obeys, s

\* What the parser lets pass kept the rules at every step, but for a look at
\* EntryPoint's code right before a RETURN and for a hidden GAS, whatever the
\* contracts do (TracerResultParser.ts:107-341).
THEOREM AcceptedStepsKeepTheRules ==
  CollectorSpec =>
    [](Over => \A staked \in SUBSET Entities :
                 Accepts(c, staked) =>
                   \A i \in DOMAIN history : Obeys(i, staked) \/ Missed(i) \/ HiddenGas(i))
<1>1. CollectorInv =>
        (Over => \A staked \in SUBSET Entities :
                   Accepts(c, staked) =>
                     \A i \in DOMAIN history : Obeys(i, staked) \/ Missed(i) \/ HiddenGas(i))
  BY AcceptedObeys
<1> QED
  BY <1>1, TracerKeepsWhatRan, PTL

\* No opcode that hides a GAS runs.  Where one does the property fails: MCCollectorRules.
NoHiding == Simple \cap NamedCall = {}

\* The property of the runs, where nothing hides a GAS: no step that breaks a rule
\* gets past the tracer and the parser (BundlerCollectorTracer.ts:184-382).
THEOREM AcceptedStepsStayLawful == ASSUME NoHiding PROVE CollectorSpec => []AcceptedStepsObeyRules
<1>1. ASSUME CollectorInv, Over, NEW i \in DOMAIN history PROVE ~HiddenGas(i)
  <2>1. Records(history, c) /\ Validated
    BY <1>1 DEF CollectorInv, Over
  <2>2. history \in Seq(StepType)
    BY <2>1 DEF Records
  <2>3. DOMAIN history = 1..Len(history) /\ Len(history) \in Nat
    BY <2>2, LenProperties
  <2>4. history[i].op = "GAS" => i # Len(history)
    BY <2>1 DEF Validated, Last, Delayed
  <2>5. history[i].op = "GAS" => i + 1 \in DOMAIN history
    BY <1>1, <2>3, <2>4
  <2>6. history[i].op = "GAS" => history[i + 1].op \in Ops
    BY <2>1, <2>5 DEF Records, Sound, StepType
  <2> QED
    BY <2>6 DEF HiddenGas, NoHiding, NamedCall, CallOps, Ops, ExtOps, StorageOps
<1>2. CollectorInv => AcceptedStepsObeyRules
  BY <1>1, AcceptedObeys DEF AcceptedStepsObeyRules
<1> QED
  BY <1>2, TracerKeepsWhatRan, PTL

\* The method of a call is its selector in hex, while the parser spares the call of
\* EntryPoint by the name depositTo (TracerResultParser.ts:121-125): a deposit that
\* the rules allow is refused.
Deposits(i) ==
  /\ history[i].op \in CallOps /\ history[i].on = EntryPoint
  /\ history[i].method = "0xb760faf9"

Lawful(staked) == \A i \in DOMAIN history : Obeys(i, staked) /\ ~Suspected(i)

\* Every call that was kept is EntryPoint's, its SenderCreator's or a lawful step's.
LEMMA CallsAreLegal ==
  ASSUME CollectorInv, Over, NEW staked \in SUBSET Entities, Lawful(staked),
         \A i \in DOMAIN history : ~Deposits(i)
  PROVE  IllegalCalls(c) = {}
<1> SUFFICES ASSUME NEW x \in IllegalCalls(c) PROVE FALSE
  OBVIOUS
<1>1. Records(history, c)
  BY DEF CollectorInv
<1>2. x \in c.calls
  BY DEF IllegalCalls
<1>3. PICK i \in DOMAIN history : history[i].op \in CallOps /\ CallOf(history[i]) = x
  BY <1>1, <1>2 DEF Records, CallsKept
<1> DEFINE s == history[i]
<1>4. x.from = s.self /\ x.to = s.on /\ x.method = s.method /\ x.value = s.value
  BY <1>3 DEF CallOf
<1>5. Sound(s) /\ Obeys(i, staked) /\ ~Deposits(i)
  BY <1>1 DEF Records, Lawful
<1>6. s.who \in Entities \cup {EntryPoint, SenderCreator}
  BY DEF CollectorInv
<1>7. \/ x.to = EntryPoint /\ x.method \notin {"0x", "depositTo"}
      \/ x.to # EntryPoint /\ x.value
  BY DEF IllegalCalls
<1>8. CASE s.who \in Entities
  <2>1. /\ s.on = EntryPoint => s.method \in {"0x", "0xb760faf9"}
        /\ s.value => s.on = EntryPoint
    BY <1>3, <1>5, <1>8 DEF Obeys
  <2>2. s.on = EntryPoint => s.method # "0xb760faf9"
    BY <1>3, <1>5 DEF Deposits
  <2> HIDE DEF s
  <2> QED
    BY <1>4, <1>7, <2>1, <2>2
<1>9. CASE s.who \in {EntryPoint, SenderCreator}
  <2>1. s.op = "CALL"
    BY <1>3, <1>5, <1>9 DEF Sound, CallOps
  <2>2. s.on \in Entity \cup {SenderCreator} /\ ~s.value
    BY <1>5, <1>9, <2>1 DEF Sound
  <2>3. s.on # EntryPoint
    BY <2>2, Distinct DEF Entity
  <2> HIDE DEF s
  <2> QED
    BY <1>4, <1>7, <2>2, <2>3
<1> QED
  BY <1>6, <1>8, <1>9

\* A level of an entity is held against nobody.
LEMMA LevelsAreAllowed ==
  ASSUME CollectorInv, Over, NEW staked \in SUBSET Entities, Lawful(staked),
         NEW e \in Entities, NEW j \in DOMAIN c.levels, c.levels[j].target = e
  PROVE  LevelAllowed(e, c.levels[j], c, staked)
<1> DEFINE lev == c.levels[j]
<1>1. Records(history, c)
  BY DEF CollectorInv
<1>2. Justified(history, lev) /\ lev.target = e
  BY <1>1 DEF Records, AllJustified
<1>3. \A i \in DOMAIN history : Ran(history, e, i) =>
        Obeys(i, staked) /\ ~Suspected(i) /\ history[i].who = e
  BY DEF Lawful, Ran
<1>4. e \in Entity /\ Ghost # Factory
  BY Distinct DEF Entities, Entity
<1> HIDE DEF lev
<1>5. ~lev.oog
  BY <1>2, <1>3 DEF Justified, Obeys
<1>6. ASSUME NEW o \in lev.opcodes PROVE o \notin Banned
  <2>1. CASE o \in {"CALL", "RETURN"}
    BY <2>1 DEF Banned
  <2>2. CASE o = "GAS"
    <3>1. PICK i \in DOMAIN history : /\ Ran(history, e, i) /\ history[i].op = "GAS"
                                     /\ history[i + 1].op \notin NamedCall
      BY <1>2, <1>6, <2>2 DEF Justified
    <3>2. history[i + 1].op \in CallOps
      BY <1>3, <3>1 DEF Obeys
    <3> QED
      BY <3>1, <3>2 DEF NamedCall
  <2>3. CASE o \notin {"CALL", "RETURN", "GAS"}
    <3>1. PICK i \in DOMAIN history : Ran(history, e, i) /\ history[i].op = o
      BY <1>2, <1>6, <2>3 DEF Justified
    <3>2. o \notin Banned \ {"GAS"}
      BY <1>3, <3>1 DEF Obeys
    <3> QED
      BY <2>3, <3>2
  <2> QED
    BY <2>1, <2>2, <2>3
<1>7. ASSUME NEW o \in lev.opcodes, o \in StakedOnly PROVE e \in staked
  <2>1. o \notin {"CALL", "RETURN", "GAS"}
    BY <1>7 DEF StakedOnly
  <2>2. PICK i \in DOMAIN history : Ran(history, e, i) /\ history[i].op = o
    BY <1>2, <1>7, <2>1 DEF Justified
  <2> QED
    BY <1>3, <1>7, <2>2 DEF Obeys
<1>8. Ghost \notin lev.sizes
  <2> SUFFICES ASSUME Ghost \in lev.sizes PROVE FALSE
    OBVIOUS
  <2>1. PICK i \in DOMAIN history : /\ Ran(history, e, i) /\ history[i].op \in ExtOps \cup CallOps
                                   /\ history[i].on = Ghost
    BY <1>2, <1>4 DEF Justified
  <2> QED
    BY <1>3, <2>1 DEF Obeys
<1>9. EntryPoint \notin lev.ext
  <2> SUFFICES ASSUME EntryPoint \in lev.ext PROVE FALSE
    OBVIOUS
  <2>1. PICK i \in DOMAIN history :
          /\ Ran(history, e, i) /\ history[i].op \in ExtOps /\ history[i].on = EntryPoint
          /\ history[i - 1].op = "RETURN"
               \/ ~(history[i].op = "EXTCODESIZE" /\ history[i + 1].op = "ISZERO")
    BY <1>2 DEF Justified
  <2> QED
    BY <1>3, <2>1 DEF Obeys, Suspected
<1>10. ASSUME NEW x \in lev.access, x[1] \notin {Sender, EntryPoint}
       PROVE  \E i \in DOMAIN history :
                /\ x = <<history[i].self, history[i].on, history[i].op>>
                /\ \/ BelongsTo(x[2], Sender) /\ SenderSlotsFree(e, staked)
                   \/ /\ e \in staked
                      /\ \/ BelongsTo(x[2], Sender) \/ BelongsTo(x[2], e) \/ x[1] = e
                         \/ x[3] \in {"SLOAD", "TLOAD"}
  <2>1. PICK i \in DOMAIN history : /\ Ran(history, e, i) /\ history[i].op \in StorageOps
                                   /\ <<history[i].self, history[i].on, history[i].op>> = x
    BY <1>2 DEF Justified
  <2>2. StorageObeys(history[i], staked) /\ history[i].who = e
    BY <1>3, <2>1 DEF Obeys
  <2>3. x[1] = history[i].self /\ x[2] = history[i].on /\ x[3] = history[i].op
    BY <2>1
  <2> QED
    BY <1>10, <2>1, <2>2, <2>3 DEF StorageObeys, SenderSlotsFree
<1>11. StorageAllowed(e, lev, c, staked)
  <2> SUFFICES ASSUME NEW x \in lev.access, x[1] \notin {Sender, EntryPoint}
               PROVE  LET needs == SlotNeeds(e, lev, x[1], x[2], c, staked)
                      IN  needs = "nothing" \/ (needs = "stake" /\ e \in staked)
    BY DEF StorageAllowed
  <2> DEFINE needs == SlotNeeds(e, lev, x[1], x[2], c, staked)
             ofSender == AssociatedWith(x[2], Sender, c)
             own == AssociatedWith(x[2], e, c) \/ x[1] = e
  <2>1. (ofSender <=> BelongsTo(x[2], Sender)) /\ (AssociatedWith(x[2], e, c) <=> BelongsTo(x[2], e))
    BY <1>4, SlotsAreAssociated DEF Entity
  <2>2. \/ BelongsTo(x[2], Sender) /\ SenderSlotsFree(e, staked)
        \/ /\ e \in staked
           /\ \/ BelongsTo(x[2], Sender) \/ BelongsTo(x[2], e) \/ x[1] = e
              \/ x[3] \in {"SLOAD", "TLOAD"}
    BY <1>10
  <2>3. needs = IF ofSender THEN IF SenderSlotsFree(e, staked) THEN "nothing" ELSE "stake"
                ELSE IF own \/ ~WritesTo(lev, x[1], x[2]) THEN "stake" ELSE "forbidden"
    BY DEF SlotNeeds
  \* Another step may have written the slot: it obeys too.
  <2>4. ASSUME WritesTo(lev, x[1], x[2]), ~BelongsTo(x[2], Sender)
        PROVE  BelongsTo(x[2], e) \/ x[1] = e
    <3>1. PICK o \in {"SSTORE", "TSTORE"} : <<x[1], x[2], o>> \in lev.access
      BY <2>4 DEF WritesTo
    <3> DEFINE y == <<x[1], x[2], o>>
    <3>2. y[1] = x[1] /\ y[2] = x[2] /\ y[3] = o /\ y \in lev.access
      BY <3>1
    <3> HIDE DEF y
    <3>3. \/ BelongsTo(y[2], Sender)
          \/ BelongsTo(y[2], e) \/ y[1] = e
          \/ y[3] \in {"SLOAD", "TLOAD"}
      BY <1>10, <3>2
    <3> QED
      BY <2>4, <3>2, <3>3
  <2> HIDE DEF needs
  <2>5. CASE BelongsTo(x[2], Sender)
    <3>1. needs = IF SenderSlotsFree(e, staked) THEN "nothing" ELSE "stake"
      BY <2>1, <2>3, <2>5
    <3>2. needs = "nothing" \/ (needs = "stake" /\ e \in staked)
      BY <2>2, <3>1
    <3> QED
      BY <3>2 DEF needs
  <2>6. CASE ~BelongsTo(x[2], Sender)
    <3>1. e \in staked
      BY <2>2, <2>6
    <3>2. AssociatedWith(x[2], e, c) \/ x[1] = e \/ ~WritesTo(lev, x[1], x[2])
      BY <2>1, <2>4, <2>6
    <3>3. needs = "stake"
      BY <2>1, <2>3, <2>6, <3>2
    <3> QED
      BY <3>1, <3>3 DEF needs
  <2> QED
    BY <2>5, <2>6
<1>12. LevelAllowed(e, lev, c, staked)
  BY <1>5, <1>6, <1>7, <1>8, <1>9, <1>11 DEF LevelAllowed
<1> QED
  BY <1>12 DEF lev

LEMMA LawfulPass ==
  ASSUME CollectorInv, Over, NEW staked \in SUBSET Entities, Lawful(staked),
         \A i \in DOMAIN history : ~Deposits(i)
  PROVE  Accepts(c, staked)
<1>1. c.levels # <<>>
  BY DEF CollectorInv, Validated, Over
<1>2. IllegalCalls(c) = {}
  BY CallsAreLegal
<1>3. \A e \in Entities : \A j \in DOMAIN c.levels :
        c.levels[j].target = e => LevelAllowed(e, c.levels[j], c, staked)
  BY LevelsAreAllowed
<1> QED
  BY <1>1, <1>2, <1>3 DEF Accepts

\* A validation whose every step keeps the rules is accepted, whatever its execution
\* does, unless a deposit is made, or EntryPoint's code looked at right after a RETURN
\* (TracerResultParser.ts:107-341, BundlerCollectorTracer.ts:265-271).
THEOREM LawfulOperationsPass ==
  CollectorSpec =>
    [](Over => \A staked \in SUBSET Entities :
                 Lawful(staked) /\ (\A i \in DOMAIN history : ~Deposits(i)) => Accepts(c, staked))
<1>1. CollectorInv =>
        (Over => \A staked \in SUBSET Entities :
                   Lawful(staked) /\ (\A i \in DOMAIN history : ~Deposits(i)) => Accepts(c, staked))
  BY LawfulPass
<1> QED
  BY <1>1, TracerKeepsWhatRan, PTL

\* No contract deposits at EntryPoint.  Where one does the property fails:
\* MCCollectorRules.
NoDeposit == "0xb760faf9" \notin Methods

\* The property of the runs, where no contract deposits: an operation that keeps the
\* rules is not refused (TracerResultParser.ts:163-173).
THEOREM LawfulStaysAccepted == ASSUME NoDeposit PROVE CollectorSpec => []LawfulIsAccepted
<1>1. ASSUME CollectorInv, NEW i \in DOMAIN history PROVE ~Deposits(i)
  <2>1. Sound(history[i])
    BY <1>1 DEF CollectorInv, Records
  <2> QED
    BY <2>1 DEF Sound, Deposits, NoDeposit
<1>2. CollectorInv => LawfulIsAccepted
  BY <1>1, LawfulPass DEF LawfulIsAccepted, Lawful
<1> QED
  BY <1>2, TracerKeepsWhatRan, PTL
=============================================================================
