---------------------------- MODULE ServerProofs ----------------------------
(* Theorems about Execution and BundlerServer: what holds of an operation   *)
(* that is admitted while bundles are made, deposits change and answers of  *)
(* the node are late, for any clients, timers, operations and deposits.     *)
EXTENDS BundlerServer, SumLemmas

-----------------------------------------------------------------------------
(* What operations cost                                                    *)

Cost == [op \in UserOp |-> op.cost]

LEMMA CostType ==
  \A op \in UserOp : Cost[op] = op.cost /\ Cost[op] \in Nat
BY ExecutionAssumption DEF Cost

LEMMA ChargeTotal ==
  ASSUME NEW S \in SUBSET UserOp, IsFiniteSet(S), NEW p
  PROVE  Charge(S, p) = Total(Cost, SponsoredBy(S, p))
<1> DEFINE T == SponsoredBy(S, p)
           Sums(h) ==
             h = [s \in SUBSET T |->
                    IF s = {} THEN 0
                    ELSE (CHOOSE x \in s : TRUE).cost + h[s \ {CHOOSE x \in s : TRUE}]]
           table == CHOOSE h : Sums(h)
<1>1. Charge(S, p) = table[T]
  BY DEF Charge, MapThenSumSet, MapThenFoldSet
<1>0. T \in SUBSET UserOp /\ IsFiniteSet(T)
  BY FS_Subset DEF SponsoredBy
<1> HIDE DEF T
<1>2. ASSUME NEW h PROVE Sums(h) <=> SumsUp(Cost, T, h)
  <2>1. \A s \in SUBSET T : s # {} => Cost[Taken(s)] = (CHOOSE x \in s : TRUE).cost
    BY <1>0, TakenIn DEF Taken, Cost
  <2>2. \A s \in SUBSET T :
          (IF s = {} THEN 0
           ELSE (CHOOSE x \in s : TRUE).cost + h[s \ {CHOOSE x \in s : TRUE}])
          = (IF s = {} THEN 0 ELSE Cost[Taken(s)] + h[s \ {Taken(s)}])
    BY <2>1 DEF Taken
  <2> QED
    BY <2>2, Zenon DEF SumsUp
<1> HIDE DEF Sums
<1>3. PICK g : SumsUp(Cost, T, g)
  BY <1>0, SumsUpExists
<1>4. Sums(table)
  BY <1>2, <1>3
<1>5. SumsUp(Cost, T, table) /\ SumsUp(Cost, T, CHOOSE h : SumsUp(Cost, T, h))
  BY <1>2, <1>3, <1>4
<1> HIDE DEF table
<1>6. table[T] = (CHOOSE h : SumsUp(Cost, T, h))[T]
  BY <1>0, <1>5, SumsUpAgree
<1> QED
  BY <1>1, <1>6 DEF Total, T

\* Operations of two sets that have none in common.
LEMMA TotalDisjoint ==
  ASSUME NEW w, NEW S, NEW T, IsFiniteSet(S), IsFiniteSet(T), S \cap T = {},
         \A x \in S \union T : w[x] \in Nat
  PROVE  Total(w, S \union T) = Total(w, S) + Total(w, T)
<1> DEFINE B == {t \in SUBSET T : Total(w, S \union t) # Total(w, S) + Total(w, t)}
<1>1. SUFFICES ASSUME B # {} PROVE FALSE
  OBVIOUS
<1>2. PICK t \in B : \A u \in B : ~(u \subseteq t /\ u # t)
  <2>1. B \in SUBSET SUBSET T
    OBVIOUS
  <2> HIDE DEF B
  <2> QED
    BY <1>1, <2>1, SmallestSet
<1>3. /\ t \in SUBSET T /\ IsFiniteSet(t) /\ IsFiniteSet(S \union t)
      /\ Total(w, S \union t) # Total(w, S) + Total(w, t)
  <2>1. t \in SUBSET T /\ Total(w, S \union t) # Total(w, S) + Total(w, t)
    OBVIOUS
  <2>2. IsFiniteSet(t)
    BY <2>1, FS_Subset
  <2> QED
    BY <2>1, <2>2, FS_Union
<1>4. t # {}
  <2>1. Total(w, S) \in Nat
    BY TotalType
  <2>2. Total(w, {}) = 0
    BY TotalEmpty
  <2>3. S \union {} = S
    OBVIOUS
  <2> QED
    BY <1>3, <2>1, <2>2, <2>3
<1>5. PICK x \in t : TRUE
  BY <1>4
<1> DEFINE r == t \ {x}
<1>6. Total(w, S \union r) = Total(w, S) + Total(w, r)
  BY <1>2, <1>3, <1>5
<1>7. Total(w, t) = w[x] + Total(w, r)
  BY <1>3, <1>5, TotalRemove
<1>8. Total(w, S \union t) = w[x] + Total(w, S \union r)
  <2>1. (S \union t) \ {x} = S \union r /\ x \in S \union t
    BY <1>3, <1>5
  <2>2. \A y \in S \union t : w[y] \in Nat
    BY <1>3
  <2> QED
    BY <1>3, <2>1, <2>2, TotalRemove
<1>9. /\ w[x] \in Nat /\ Total(w, S) \in Nat
  BY <1>3, <1>5, TotalType
<1>10. Total(w, r) \in Nat
  <2>1. IsFiniteSet(r) /\ \A y \in r : w[y] \in Nat
    BY <1>3, FS_Subset
  <2> HIDE DEF r
  <2> QED
    BY <2>1, TotalType
<1> HIDE DEF r, B
<1> QED
  BY <1>3, <1>6, <1>7, <1>8, <1>9, <1>10

LEMMA TimesSum ==
  ASSUME NEW c \in Nat, NEW a \in Nat, NEW b \in Nat
  PROVE  /\ c * (a + b) = c * a + c * b
         /\ c * a \in Nat /\ c * b \in Nat
OBVIOUS

LEMMA TimesMonotone ==
  ASSUME NEW c \in Nat, NEW a \in Nat, NEW b \in Nat, a <= b
  PROVE  c * a <= c * b
<1>1. PICK d \in Nat : b = a + d
  <2>1. b - a \in Nat /\ b = a + (b - a)
    OBVIOUS
  <2> QED
    BY <2>1
<1>2. c * b = c * a + c * d /\ c * a \in Nat /\ c * d \in Nat
  BY <1>1, TimesSum
<1> QED
  BY <1>2

\* Elements of one weight add up to their number times the weight.
LEMMA TotalOfOneWeight ==
  ASSUME NEW w, NEW S, IsFiniteSet(S), NEW c \in Nat, \A x \in S : w[x] = c
  PROVE  Total(w, S) = c * Cardinality(S)
<1> DEFINE B == {t \in SUBSET S : Total(w, t) # c * Cardinality(t)}
<1>1. SUFFICES ASSUME B # {} PROVE FALSE
  OBVIOUS
<1>2. PICK t \in B : \A u \in B : ~(u \subseteq t /\ u # t)
  <2>1. B \in SUBSET SUBSET S
    OBVIOUS
  <2> HIDE DEF B
  <2> QED
    BY <1>1, <2>1, SmallestSet
<1>3. t \in SUBSET S /\ Total(w, t) # c * Cardinality(t)
  OBVIOUS
<1>4. IsFiniteSet(t)
  BY <1>3, FS_Subset
<1>5. t # {}
  BY <1>3, TotalEmpty, FS_EmptySet
<1>6. PICK x \in t : TRUE
  BY <1>5
<1> DEFINE r == t \ {x}
<1>7. Total(w, r) = c * Cardinality(r)
  BY <1>2, <1>3, <1>6
<1>8. IsFiniteSet(r) /\ Cardinality(r) = Cardinality(t) - 1 /\ Cardinality(r) \in Nat
  <2>1. IsFiniteSet(r) /\ Cardinality(r) = Cardinality(t) - 1
    BY <1>4, <1>6, FS_RemoveElement
  <2> QED
    BY <2>1, FS_CardinalityType
<1>9. Total(w, t) = w[x] + Total(w, r)
  BY <1>3, <1>4, <1>6, TotalRemove
<1>10. w[x] = c /\ Cardinality(t) \in Nat
  BY <1>3, <1>4, <1>6, FS_CardinalityType
<1> HIDE DEF r, B
<1>11. c * (Cardinality(r) + 1) = c * Cardinality(r) + c * 1
  BY <1>8, TimesSum
<1>12. Cardinality(t) = Cardinality(r) + 1
  BY <1>8, <1>10
<1>13. c * Cardinality(r) \in Nat /\ c * 1 = c
  BY <1>8
<1> QED
  BY <1>3, <1>7, <1>9, <1>10, <1>11, <1>12, <1>13

-----------------------------------------------------------------------------
(* The inductive invariant                                                 *)

ExecTypes ==
  /\ pool \in SUBSET UserOp /\ IsFiniteSet(pool)
  /\ bundle \in SUBSET UserOp /\ IsFiniteSet(bundle)
  /\ mined \in SUBSET UserOp /\ IsFiniteSet(mined)
  /\ pc \in [Caller -> Places]
  /\ request \in [Caller -> UserOp \union {Absent}]
  /\ execQueue \in Seq(Client)
  /\ deposits \in [Paymaster -> Nat \union {Unread}]
  /\ answer \in [Client -> Nat \union {Unread}]
  /\ balance \in [Paymaster -> Nat]
  /\ chargedSince \in [Paymaster -> SUBSET UserOp]

\* Where sendUserOperation is before attemptBundle.
Admitting == {"validateUserOp", "getOperationHash", "checkPaymasterDeposit",
              "getPaymasterBalance", "addUserOp"}

\* The ExecutionManager's mutex: a request that has left its queue, up to the end of
\* the attempt that follows it, is its holder.
Exclusive ==
  \A c \in Caller :
    /\ pc[c] = "idle" => request[c] = Absent
    /\ pc[c] \in Admitting \union {"queued"} => c \in Client /\ request[c] # Absent
    /\ request[c] # Absent /\ pc[c] # "queued" => Holds(execQueue, c)

\* A deposit as the node last read it.
Owed(p) == balance[p] + Total(Cost, chargedSince[p])

\* What the check asks for.
Needed(ops, op) == op.cost * (1 + Cardinality(SponsoredBy(ops, op.paymaster)))

DepositsRead ==
  /\ \A p \in Paymaster : chargedSince[p] \subseteq SponsoredBy(mined, p)
  /\ \A p \in Paymaster : deposits[p] # Unread => deposits[p] = Owed(p)
  /\ \A c \in Client :
       /\ pc[c] = "getPaymasterBalance" =>
            /\ request[c].paymaster \in Paymaster
            /\ deposits[request[c].paymaster] = Unread
       /\ answer[c] # Unread =>
            /\ pc[c] = "getPaymasterBalance"
            /\ answer[c] = Owed(request[c].paymaster)
       /\ pc[c] = "addUserOp" /\ request[c].paymaster # Absent =>
            Needed(pool, request[c]) <= Owed(request[c].paymaster)

ExecInv == ExecTypes /\ Exclusive /\ DepositsRead

-----------------------------------------------------------------------------
(* The mutex                                                               *)

LEMMA OneAdmits ==
  ASSUME ExecInv, NEW c \in Caller, NEW d \in Caller, pc[c] \in Admitting, pc[d] \in Admitting
  PROVE  c = d
BY DEF ExecInv, Exclusive, Admitting, Holds

\* A caller moves on without leaving its request.
LEMMA GotoKeeps ==
  ASSUME ExecInv, NEW c \in Caller, NEW place \in Places \ {"idle", "queued"}, Goto(c, place),
         UNCHANGED <<execQueue, request>>,
         request[c] # Absent => Holds(execQueue, c),
         place \in Admitting => c \in Client /\ request[c] # Absent
  PROVE  Exclusive' /\ pc' \in [Caller -> Places]
<1>1. /\ pc' \in [Caller -> Places] /\ pc'[c] = place
      /\ \A d \in Caller : d # c => pc'[d] = pc[d]
  BY DEF ExecInv, ExecTypes, Goto
<1> QED
  BY <1>1 DEF ExecInv, Exclusive

\* A caller ends its request and frees the mutex.
LEMMA LeaveKeeps ==
  ASSUME ExecInv, NEW c \in Caller, Leave(c), request[c] # Absent => Holds(execQueue, c)
  PROVE  /\ Exclusive'
         /\ pc' \in [Caller -> Places] /\ request' \in [Caller -> UserOp \union {Absent}]
         /\ execQueue' \in Seq(Client)
         /\ pc'[c] = "idle"
         /\ \A d \in Caller : d # c => pc'[d] = pc[d] /\ request'[d] = request[d]
<1>1. /\ pc' \in [Caller -> Places] /\ pc'[c] = "idle"
      /\ \A d \in Caller : d # c => pc'[d] = pc[d]
  BY DEF ExecInv, ExecTypes, Leave, Goto, Places
<1>2. CASE request[c] # Absent
  <2>1. /\ execQueue' = Tail(execQueue) /\ request' = [request EXCEPT ![c] = Absent]
        /\ execQueue # <<>> /\ Head(execQueue) = c /\ execQueue \in Seq(Client)
    BY <1>2 DEF Leave, Holds, ExecInv, ExecTypes
  <2>2. /\ request' \in [Caller -> UserOp \union {Absent}] /\ request'[c] = Absent
        /\ \A d \in Caller : d # c => request'[d] = request[d]
    BY <2>1 DEF ExecInv, ExecTypes
  <2>3. execQueue' \in Seq(Client)
    BY <2>1
  <2>4. \A d \in Caller : d # c => request[d] = Absent \/ pc[d] = "queued"
    BY <2>1 DEF ExecInv, Exclusive, Holds
  <2>5. Exclusive'
    <3> SUFFICES ASSUME NEW d \in Caller
                 PROVE  /\ pc'[d] = "idle" => request'[d] = Absent
                        /\ pc'[d] \in Admitting \union {"queued"} =>
                             d \in Client /\ request'[d] # Absent
                        /\ request'[d] # Absent /\ pc'[d] # "queued" => Holds(execQueue', d)
      BY DEF Exclusive
    <3>1. CASE d = c
      BY <1>1, <2>2, <3>1 DEF Admitting
    <3>2. CASE d # c
      BY <1>1, <2>2, <2>4, <3>2 DEF ExecInv, Exclusive
    <3> QED
      BY <3>1, <3>2
  <2> QED
    BY <1>1, <2>2, <2>3, <2>5
<1>3. CASE request[c] = Absent
  <2>1. UNCHANGED <<execQueue, request>>
    BY <1>3 DEF Leave
  <2>2. Exclusive'
    <3> SUFFICES ASSUME NEW d \in Caller
                 PROVE  /\ pc'[d] = "idle" => request'[d] = Absent
                        /\ pc'[d] \in Admitting \union {"queued"} =>
                             d \in Client /\ request'[d] # Absent
                        /\ request'[d] # Absent /\ pc'[d] # "queued" => Holds(execQueue', d)
      BY DEF Exclusive
    <3>1. CASE d = c
      BY <1>1, <1>3, <2>1, <3>1 DEF Admitting
    <3>2. CASE d # c
      BY <1>1, <2>1, <3>2 DEF ExecInv, Exclusive
    <3> QED
      BY <3>1, <3>2
  <2> QED
    BY <1>1, <2>1, <2>2 DEF ExecInv, ExecTypes
<1> QED
  BY <1>2, <1>3

LEMMA HeadStays ==
  ASSUME NEW q \in Seq(Client), NEW c \in Client
  PROVE  /\ Append(q, c) \in Seq(Client)
         /\ \A d : Holds(q, d) => Holds(Append(q, c), d)
<1>1. Append(q, c) \in Seq(Client)
  OBVIOUS
<1>2. q # <<>> => Append(q, c) # <<>> /\ Head(Append(q, c)) = Head(q)
  OBVIOUS
<1> QED
  BY <1>1, <1>2 DEF Holds

\* sendUserOperation joins the queue.
LEMMA EnqueueKeeps ==
  ASSUME ExecInv, NEW c \in Client, NEW op \in UserOp, SendUserOperation(c, op)
  PROVE  /\ Exclusive'
         /\ pc' \in [Caller -> Places] /\ request' \in [Caller -> UserOp \union {Absent}]
         /\ execQueue' \in Seq(Client)
         /\ pc'[c] = "queued"
         /\ \A d \in Caller : d # c => pc'[d] = pc[d] /\ request'[d] = request[d]
<1>0. c \in Caller /\ op # Absent /\ execQueue \in Seq(Client)
  BY ExecutionAssumption DEF Caller, ExecInv, ExecTypes
<1>1. /\ pc' \in [Caller -> Places] /\ pc'[c] = "queued"
      /\ request' \in [Caller -> UserOp \union {Absent}] /\ request'[c] = op
      /\ \A d \in Caller : d # c => pc'[d] = pc[d] /\ request'[d] = request[d]
  BY <1>0 DEF ExecInv, ExecTypes, SendUserOperation, Goto, Places
<1>2. /\ execQueue' \in Seq(Client)
      /\ \A d : Holds(execQueue, d) => Holds(execQueue', d)
  BY <1>0, HeadStays DEF SendUserOperation
<1>3. Exclusive'
  <2> SUFFICES ASSUME NEW d \in Caller
               PROVE  /\ pc'[d] = "idle" => request'[d] = Absent
                      /\ pc'[d] \in Admitting \union {"queued"} =>
                           d \in Client /\ request'[d] # Absent
                      /\ request'[d] # Absent /\ pc'[d] # "queued" => Holds(execQueue', d)
    BY DEF Exclusive
  <2>1. CASE d = c
    BY <1>0, <1>1, <2>1
  <2>2. CASE d # c
    BY <1>1, <1>2, <2>2 DEF ExecInv, Exclusive
  <2> QED
    BY <2>1, <2>2
<1> QED
  BY <1>1, <1>2, <1>3

-----------------------------------------------------------------------------
(* Deposits                                                                *)

LEMMA OwedType ==
  ASSUME ExecInv, NEW p \in Paymaster
  PROVE  /\ Owed(p) \in Nat /\ IsFiniteSet(chargedSince[p])
         /\ chargedSince[p] \in SUBSET UserOp
<1>1. chargedSince[p] \in SUBSET UserOp /\ chargedSince[p] \subseteq mined
  BY DEF ExecInv, ExecTypes, DepositsRead, SponsoredBy
<1>2. IsFiniteSet(chargedSince[p])
  BY <1>1, FS_Subset DEF ExecInv, ExecTypes
<1>3. Total(Cost, chargedSince[p]) \in Nat
  BY <1>1, <1>2, CostType, TotalType
<1> QED
  BY <1>1, <1>2, <1>3 DEF Owed, ExecInv, ExecTypes

LEMMA NeededType ==
  ASSUME NEW ops \in SUBSET UserOp, IsFiniteSet(ops), NEW op \in UserOp
  PROVE  /\ Needed(ops, op) \in Nat
         /\ IsFiniteSet(SponsoredBy(ops, op.paymaster))
         /\ Cardinality(SponsoredBy(ops, op.paymaster)) \in Nat
<1>1. SponsoredBy(ops, op.paymaster) \in SUBSET ops
  BY DEF SponsoredBy
<1>2. IsFiniteSet(SponsoredBy(ops, op.paymaster))
  BY <1>1, FS_Subset
<1>3. Cardinality(SponsoredBy(ops, op.paymaster)) \in Nat
  BY <1>2, FS_CardinalityType
<1>4. op.cost \in Nat
  BY ExecutionAssumption
<1>5. op.cost * (1 + Cardinality(SponsoredBy(ops, op.paymaster))) \in Nat
  BY <1>3, <1>4, TimesSum
<1> QED
  BY <1>2, <1>3, <1>5 DEF Needed

\* With fewer operations of the paymaster in the mempool, less is asked for.
LEMMA NeededShrinks ==
  ASSUME NEW ops \in SUBSET UserOp, IsFiniteSet(ops), NEW fewer \in SUBSET ops, NEW op \in UserOp
  PROVE  Needed(fewer, op) <= Needed(ops, op)
<1>0. IsFiniteSet(fewer) /\ fewer \in SUBSET UserOp
  BY FS_Subset
<1> DEFINE S == SponsoredBy(ops, op.paymaster)
           T == SponsoredBy(fewer, op.paymaster)
<1>1. T \in SUBSET S
  BY DEF SponsoredBy
<1>2. IsFiniteSet(S) /\ Cardinality(S) \in Nat /\ Cardinality(T) \in Nat
  BY <1>0, NeededType
<1> HIDE DEF S, T
<1>3. Cardinality(T) <= Cardinality(S)
  BY <1>1, <1>2, FS_Subset
<1>4. 1 + Cardinality(T) \in Nat /\ 1 + Cardinality(S) \in Nat
      /\ 1 + Cardinality(T) <= 1 + Cardinality(S)
  BY <1>2, <1>3
<1>5. op.cost \in Nat
  BY ExecutionAssumption
<1>6. op.cost * (1 + Cardinality(T)) <= op.cost * (1 + Cardinality(S))
  BY <1>4, <1>5, TimesMonotone
<1> QED
  BY <1>6 DEF Needed, S, T

\* A step that neither admits nor reads a deposit keeps what is known of them.
LEMMA DepositsKeep ==
  ASSUME ExecInv, ExecTypes',
         pool' \subseteq pool,
         \A p \in Paymaster : Owed(p)' = Owed(p),
         \A p \in Paymaster : chargedSince'[p] \subseteq SponsoredBy(mined', p),
         \A p \in Paymaster : deposits'[p] = deposits[p] \/ deposits'[p] = Unread,
         \A c \in Client :
           /\ pc'[c] \in {"getPaymasterBalance", "addUserOp"} =>
                pc'[c] = pc[c] /\ request'[c] = request[c]
           /\ answer'[c] # Unread =>
                answer'[c] = answer[c] /\ pc'[c] = pc[c] /\ request'[c] = request[c]
  PROVE  DepositsRead'
<1>1. \A p \in Paymaster : deposits'[p] # Unread => deposits'[p] = Owed(p)'
  BY DEF ExecInv, DepositsRead
<1>2. ASSUME NEW c \in Client
      PROVE  /\ pc'[c] = "getPaymasterBalance" =>
                  /\ request'[c].paymaster \in Paymaster
                  /\ deposits'[request'[c].paymaster] = Unread
             /\ answer'[c] # Unread =>
                  /\ pc'[c] = "getPaymasterBalance"
                  /\ answer'[c] = (Owed(request[c].paymaster))'
             /\ pc'[c] = "addUserOp" /\ request'[c].paymaster # Absent =>
                  Needed(pool', request'[c]) <= (Owed(request[c].paymaster))'
  <2>0. c \in Caller
    BY DEF Caller
  <2>1. ASSUME pc'[c] = "getPaymasterBalance"
        PROVE  /\ request'[c].paymaster \in Paymaster
               /\ deposits'[request'[c].paymaster] = Unread
    BY <2>1 DEF ExecInv, DepositsRead
  <2>2. ASSUME answer'[c] # Unread
        PROVE  /\ pc'[c] = "getPaymasterBalance"
               /\ answer'[c] = (Owed(request[c].paymaster))'
    <3>1. /\ answer'[c] = answer[c] /\ pc'[c] = "getPaymasterBalance"
          /\ request'[c] = request[c] /\ request[c].paymaster \in Paymaster
          /\ answer[c] = Owed(request[c].paymaster)
      BY <2>2 DEF ExecInv, DepositsRead
    <3>2. (Owed(request[c].paymaster))' = Owed(request[c].paymaster)
      <4>1. PICK p \in Paymaster : p = request[c].paymaster /\ p = request'[c].paymaster
        BY <3>1
      <4>2. Owed(p)' = Owed(p)
        OBVIOUS
      <4> QED
        BY <4>1, <4>2 DEF Owed
    <3> QED
      BY <3>1, <3>2
  <2>3. ASSUME pc'[c] = "addUserOp", request'[c].paymaster # Absent
        PROVE  Needed(pool', request'[c]) <= (Owed(request[c].paymaster))'
    <3>1. /\ pc[c] = "addUserOp" /\ request'[c] = request[c]
          /\ request[c] \in UserOp
          /\ Needed(pool, request[c]) <= Owed(request[c].paymaster)
      BY <2>0, <2>3 DEF ExecInv, ExecTypes, DepositsRead, Exclusive, Admitting
    <3>2. PICK op \in UserOp : op = request[c] /\ op = request'[c] /\ op.paymaster \in Paymaster
      BY <2>3, <3>1, ExecutionAssumption
    <3>3. Needed(pool', op) <= Needed(pool, op)
      BY NeededShrinks DEF ExecInv, ExecTypes
    <3>4. Needed(pool', op) \in Nat /\ Needed(pool, op) \in Nat
      BY NeededType DEF ExecInv, ExecTypes
    <3>5. Owed(op.paymaster)' = Owed(op.paymaster) /\ Owed(op.paymaster) \in Nat
      BY <3>2, OwedType
    <3>6. Needed(pool', op) <= Owed(op.paymaster)'
      BY <3>1, <3>2, <3>3, <3>4, <3>5
    <3>7. (Owed(request[c].paymaster))' = Owed(op.paymaster)'
      BY <3>2 DEF Owed
    <3> QED
      BY <3>2, <3>6, <3>7
  <2> QED
    BY <2>1, <2>2, <2>3
<1> QED
  BY <1>1, <1>2 DEF DepositsRead

\* What a step leaves of the chain for the deposits that have been read.
SameOwed ==
  /\ mined' \in SUBSET UserOp /\ IsFiniteSet(mined')
  /\ balance' \in [Paymaster -> Nat]
  /\ chargedSince' \in [Paymaster -> SUBSET UserOp]
  /\ \A p \in Paymaster : Owed(p)' = Owed(p)
  /\ \A p \in Paymaster : chargedSince'[p] \subseteq SponsoredBy(mined', p)

LEMMA ChainStays ==
  ASSUME ExecInv, UNCHANGED chainVars
  PROVE  SameOwed
<1>1. mined' = mined /\ balance' = balance /\ chargedSince' = chargedSince
  BY DEF chainVars
<1>2. \A p \in Paymaster : Owed(p)' = Owed(p)
  BY <1>1 DEF Owed
<1> QED
  BY <1>1, <1>2 DEF SameOwed, ExecInv, ExecTypes, DepositsRead

\* What is charged for an operation leaves the balance and joins what was
\* charged since the deposit was read.
LEMMA MineKeeps ==
  ASSUME ExecInv, NEW ops \in SUBSET UserOp, IsFiniteSet(ops), Mine(ops)
  PROVE  SameOwed
<1>1. mined' \in SUBSET UserOp /\ IsFiniteSet(mined')
  BY FS_Union DEF ExecInv, ExecTypes, Mine
<1>2. ASSUME NEW p \in Paymaster
      PROVE  /\ balance'[p] = balance[p] - Charge(ops, p)
             /\ Charge(ops, p) \in Nat /\ balance[p] \in Nat
             /\ Charge(ops, p) <= balance[p]
             /\ Charge(ops, p) = Total(Cost, SponsoredBy(ops, p))
             /\ chargedSince'[p] = chargedSince[p] \union SponsoredBy(ops, p)
             /\ SponsoredBy(ops, p) \in SUBSET ops /\ IsFiniteSet(SponsoredBy(ops, p))
  <2>1. SponsoredBy(ops, p) \in SUBSET ops /\ IsFiniteSet(SponsoredBy(ops, p))
    BY FS_Subset DEF SponsoredBy
  <2>2. Charge(ops, p) = Total(Cost, SponsoredBy(ops, p))
    BY ChargeTotal
  <2>3. Total(Cost, SponsoredBy(ops, p)) \in Nat
    BY <2>1, CostType, TotalType
  <2>4. Charge(ops, p) <= balance[p] /\ balance[p] \in Nat
    BY DEF Mine, Affordable, ExecInv, ExecTypes
  <2>5. /\ balance'[p] = balance[p] - Charge(ops, p)
        /\ chargedSince'[p] = chargedSince[p] \union SponsoredBy(ops, p)
    BY DEF Mine
  <2> QED
    BY <2>1, <2>2, <2>3, <2>4, <2>5
<1>3. balance' \in [Paymaster -> Nat]
  <2>1. balance' = [p \in Paymaster |-> balance[p] - Charge(ops, p)]
    BY DEF Mine
  <2>2. \A p \in Paymaster : balance[p] - Charge(ops, p) \in Nat
    BY <1>2
  <2> QED
    BY <2>1, <2>2
<1>4. chargedSince' \in [Paymaster -> SUBSET UserOp]
  <2>1. chargedSince' = [p \in Paymaster |-> chargedSince[p] \union SponsoredBy(ops, p)]
    BY DEF Mine
  <2>2. \A p \in Paymaster : chargedSince[p] \union SponsoredBy(ops, p) \in SUBSET UserOp
    BY <1>2 DEF ExecInv, ExecTypes
  <2> QED
    BY <2>1, <2>2
<1>5. \A p \in Paymaster : chargedSince'[p] \subseteq SponsoredBy(mined', p)
  BY <1>2 DEF ExecInv, DepositsRead, SponsoredBy, Mine
<1>6. ASSUME NEW p \in Paymaster PROVE Owed(p)' = Owed(p)
  <2>1. chargedSince[p] \intersect SponsoredBy(ops, p) = {}
    <3> SUFFICES ASSUME NEW op \in chargedSince[p], op \in ops PROVE FALSE
      BY <1>2
    <3>1. op \in mined /\ Fresh(op)
      BY DEF ExecInv, DepositsRead, SponsoredBy, Mine
    <3> QED
      BY <3>1 DEF Fresh, SameKey
  <2> DEFINE old == Total(Cost, chargedSince[p])
             new == Total(Cost, SponsoredBy(ops, p))
  <2>2. Total(Cost, chargedSince[p] \union SponsoredBy(ops, p)) = old + new
    <3>1. chargedSince[p] \in SUBSET UserOp /\ IsFiniteSet(chargedSince[p])
      BY OwedType
    <3>2. \A x \in chargedSince[p] \union SponsoredBy(ops, p) : Cost[x] \in Nat
      BY <1>2, <3>1, CostType
    <3> QED
      BY <1>2, <2>1, <3>1, <3>2, TotalDisjoint
  <2>3. old \in Nat /\ new \in Nat
    <3>1. chargedSince[p] \in SUBSET UserOp /\ IsFiniteSet(chargedSince[p])
      BY OwedType
    <3> QED
      BY <1>2, <3>1, CostType, TotalType
  <2>4. Owed(p) = balance[p] + old
    BY DEF Owed
  <2>5. Owed(p)' = balance'[p] + Total(Cost, chargedSince'[p])
    BY DEF Owed, Cost
  <2> HIDE DEF old, new
  <2>6. Owed(p)' = (balance[p] - new) + (old + new) /\ balance[p] \in Nat
    BY <1>2, <2>2, <2>5 DEF new
  <2> QED
    BY <2>3, <2>4, <2>6
<1> QED
  BY <1>1, <1>3, <1>4, <1>5, <1>6 DEF SameOwed

LEMMA FinitePart ==
  ASSUME NEW S, IsFiniteSet(S), NEW T, T \subseteq S
  PROVE  IsFiniteSet(T)
BY FS_Subset

\* One caller moves, not to a step that uses a deposit.
LEMMA MoveKeeps ==
  ASSUME ExecInv, NEW c \in Caller, Exclusive',
         pc' \in [Caller -> Places], request' \in [Caller -> UserOp \union {Absent}],
         execQueue' \in Seq(Client),
         pc'[c] \notin {"getPaymasterBalance", "addUserOp"},
         \A d \in Caller : d # c => pc'[d] = pc[d] /\ request'[d] = request[d],
         answer' \in {answer, [answer EXCEPT ![c] = Unread]},
         pc[c] = "getPaymasterBalance" => answer' = [answer EXCEPT ![c] = Unread],
         pool' \subseteq pool, bundle' \subseteq pool \union bundle,
         deposits' \in {deposits, [p \in Paymaster |-> Unread]},
         SameOwed
  PROVE  ExecInv'
<1>1. ExecTypes'
  <2>1. /\ pool' \in SUBSET UserOp /\ IsFiniteSet(pool')
        /\ bundle' \in SUBSET UserOp /\ IsFiniteSet(bundle')
    <3>1. /\ pool \in SUBSET UserOp /\ IsFiniteSet(pool)
          /\ bundle \in SUBSET UserOp /\ IsFiniteSet(bundle)
      BY DEF ExecInv, ExecTypes
    <3>2. IsFiniteSet(pool \union bundle)
      BY <3>1, FS_Union
    <3>3. IsFiniteSet(bundle') /\ IsFiniteSet(pool')
      BY <3>1, <3>2, FinitePart
    <3> QED
      BY <3>1, <3>3
  <2>2. /\ deposits' \in [Paymaster -> Nat \union {Unread}]
        /\ answer' \in [Client -> Nat \union {Unread}]
    BY DEF ExecInv, ExecTypes
  <2> QED
    BY <2>1, <2>2 DEF ExecTypes, SameOwed
<1>2. \A p \in Paymaster : deposits'[p] = deposits[p] \/ deposits'[p] = Unread
  OBVIOUS
<1>3. ASSUME NEW d \in Client
      PROVE  /\ pc'[d] \in {"getPaymasterBalance", "addUserOp"} =>
                  pc'[d] = pc[d] /\ request'[d] = request[d]
             /\ answer'[d] # Unread =>
                  answer'[d] = answer[d] /\ pc'[d] = pc[d] /\ request'[d] = request[d]
  <2>0. d \in Caller
    BY DEF Caller
  <2>1. CASE d # c
    BY <2>0, <2>1 DEF ExecInv, ExecTypes
  <2>2. CASE d = c
    <3>1. answer'[d] = Unread
      <4>1. CASE pc[c] = "getPaymasterBalance"
        BY <2>2, <4>1 DEF ExecInv, ExecTypes
      <4>2. CASE pc[c] # "getPaymasterBalance"
        <5>1. answer[d] = Unread
          BY <2>2, <4>2 DEF ExecInv, DepositsRead
        <5> QED
          BY <2>2, <5>1 DEF ExecInv, ExecTypes
      <4> QED
        BY <4>1, <4>2
    <3> QED
      BY <2>2, <3>1
  <2> QED
    BY <2>1, <2>2
<1>4. DepositsRead'
  BY <1>1, <1>2, <1>3, DepositsKeep DEF SameOwed
<1> QED
  BY <1>1, <1>4 DEF ExecInv

\* No caller moves.
LEMMA RestKeeps ==
  ASSUME ExecInv, UNCHANGED <<pc, request, execQueue, bundle, deposits, answer>>,
         pool' \subseteq pool, SameOwed
  PROVE  ExecInv'
<1>1. ExecTypes'
  <2>1. pool' \in SUBSET UserOp /\ IsFiniteSet(pool')
    BY FinitePart DEF ExecInv, ExecTypes
  <2> QED
    BY <2>1 DEF ExecInv, ExecTypes, SameOwed
<1>2. Exclusive'
  BY DEF ExecInv, Exclusive, Holds
<1>3. DepositsRead'
  BY <1>1, DepositsKeep DEF SameOwed
<1> QED
  BY <1>1, <1>2, <1>3 DEF ExecInv

-----------------------------------------------------------------------------
(* Every step keeps the invariant                                          *)

LEMMA InitExec == ExecInit => ExecInv
<1> SUFFICES ASSUME ExecInit PROVE ExecInv
  OBVIOUS
<1>1. ExecTypes
  BY ExecutionAssumption, FS_EmptySet DEF ExecInit, PoolInit, ExecTypes, Places
<1>2. Exclusive
  BY DEF ExecInit, Exclusive, Admitting
<1>3. DepositsRead
  <2>1. \A c \in Client : c \in Caller
    BY DEF Caller
  <2> QED
    BY <2>1 DEF ExecInit, DepositsRead, SponsoredBy
<1> QED
  BY <1>1, <1>2, <1>3 DEF ExecInv

\* A step that only moves on, from where the answer of the node is not awaited.
LEMMA OnlyMoves ==
  ASSUME ExecInv, NEW c \in Caller,
         NEW place \in Places \ {"idle", "queued", "getPaymasterBalance", "addUserOp"},
         Goto(c, place), UNCHANGED <<execQueue, request, deposits, answer>>,
         pc[c] # "getPaymasterBalance",
         request[c] # Absent => Holds(execQueue, c),
         place \in Admitting => c \in Client /\ request[c] # Absent,
         pool' \subseteq pool, bundle' \subseteq pool \union bundle, SameOwed
  PROVE  ExecInv'
<1>1. Exclusive' /\ pc' \in [Caller -> Places]
  BY GotoKeeps
<1>2. pc'[c] = place /\ \A d \in Caller : d # c => pc'[d] = pc[d]
  BY DEF Goto, ExecInv, ExecTypes
<1>3. /\ request' \in [Caller -> UserOp \union {Absent}] /\ execQueue' \in Seq(Client)
      /\ \A d \in Caller : d # c => request'[d] = request[d]
  BY DEF ExecInv, ExecTypes
<1> QED
  BY <1>1, <1>2, <1>3, MoveKeeps

\* A step that ends the call.
LEMMA LeavingKeeps ==
  ASSUME ExecInv, NEW c \in Caller, Leave(c), request[c] # Absent => Holds(execQueue, c),
         answer' \in {answer, [answer EXCEPT ![c] = Unread]},
         pc[c] = "getPaymasterBalance" => answer' = [answer EXCEPT ![c] = Unread],
         pool' \subseteq pool, bundle' \subseteq pool \union bundle,
         deposits' \in {deposits, [p \in Paymaster |-> Unread]}, SameOwed
  PROVE  ExecInv'
<1>1. /\ Exclusive'
      /\ pc' \in [Caller -> Places] /\ request' \in [Caller -> UserOp \union {Absent}]
      /\ execQueue' \in Seq(Client)
      /\ pc'[c] = "idle"
      /\ \A d \in Caller : d # c => pc'[d] = pc[d] /\ request'[d] = request[d]
  BY LeaveKeeps
<1> QED
  BY <1>1, MoveKeeps

LEMMA KeptBySend ==
  ASSUME ExecInv, NEW c \in Client, NEW op \in UserOp, SendUserOperation(c, op)
  PROVE  ExecInv'
<1>0. c \in Caller
  BY DEF Caller
<1>1. /\ Exclusive'
      /\ pc' \in [Caller -> Places] /\ request' \in [Caller -> UserOp \union {Absent}]
      /\ execQueue' \in Seq(Client)
      /\ pc'[c] = "queued"
      /\ \A d \in Caller : d # c => pc'[d] = pc[d] /\ request'[d] = request[d]
  BY EnqueueKeeps
<1>2. UNCHANGED <<pool, bundle, deposits, answer, chainVars>> /\ pc[c] = "idle"
  BY DEF SendUserOperation
<1>3. SameOwed
  BY <1>2, ChainStays
<1> QED
  BY <1>0, <1>1, <1>2, <1>3, MoveKeeps

LEMMA KeptByValidation ==
  ASSUME ExecInv, NEW c \in Client, ValidateInput(c) \/ Validated(c) \/ HashArrives(c)
  PROVE  ExecInv'
<1>0. c \in Caller
  BY DEF Caller
<1>1. /\ UNCHANGED <<pool, request, execQueue, bundle, deposits, answer, chainVars>>
      /\ pc[c] \in {"queued", "validateUserOp", "getOperationHash"}
  BY DEF ValidateInput, Validated, HashArrives, MayEnter
<1>2. PICK place \in {"validateUserOp", "getOperationHash", "checkPaymasterDeposit"} :
        Goto(c, place)
  BY DEF ValidateInput, Validated, HashArrives
<1>3. request[c] # Absent /\ Holds(execQueue, c)
  BY <1>0, <1>1 DEF ValidateInput, Validated, HashArrives, MayEnter, ExecInv, Exclusive,
                    Admitting
<1>4. SameOwed
  BY <1>1, ChainStays
<1>5. place \in Places \ {"idle", "queued", "getPaymasterBalance", "addUserOp"}
  BY <1>2 DEF Places
<1> QED
  BY <1>0, <1>1, <1>2, <1>3, <1>4, <1>5, OnlyMoves

LEMMA KeptByRefusal ==
  ASSUME ExecInv, NEW c \in Client, Refused(c)
  PROVE  ExecInv'
<1>0. c \in Caller
  BY DEF Caller
<1>1. Holds(execQueue, c)
  BY <1>0 DEF Refused, MayEnter, ExecInv, Exclusive, Admitting
<1>2. SameOwed
  BY ChainStays DEF Refused
<1> QED
  BY <1>0, <1>1, <1>2, LeavingKeeps DEF Refused

\* Nobody else is between the check and the addition.
LEMMA Alone ==
  ASSUME ExecInv, NEW c \in Client, pc[c] \in Admitting
  PROVE  /\ c \in Caller /\ request[c] \in UserOp /\ Holds(execQueue, c)
         /\ \A d \in Client : d # c => pc[d] \notin Admitting /\ answer[d] = Unread
<1>0. \A d \in Client : d \in Caller
  BY DEF Caller
<1>1. c \in Caller /\ request[c] \in UserOp /\ Holds(execQueue, c)
  BY <1>0 DEF ExecInv, ExecTypes, Exclusive, Admitting
<1>2. ASSUME NEW d \in Client, d # c PROVE pc[d] \notin Admitting /\ answer[d] = Unread
  <2>1. pc[d] \notin Admitting
    BY <1>0, <1>2, OneAdmits
  <2>2. answer[d] = Unread
    BY <2>1 DEF ExecInv, DepositsRead, Admitting
  <2> QED
    BY <2>1, <2>2
<1> QED
  BY <1>1, <1>2

\* The only client that admits one is where its deposit is known to be enough
\* or not cached.
LEMMA AdmittingKeeps ==
  ASSUME ExecInv, NEW c \in Client, pc[c] \in Admitting, ExecTypes', Exclusive',
         \A p \in Paymaster : chargedSince'[p] \subseteq SponsoredBy(mined', p),
         \A p \in Paymaster : deposits'[p] # Unread => deposits'[p] = Owed(p)',
         \A d \in Client : d # c => pc'[d] = pc[d] /\ answer'[d] = answer[d],
         pc'[c] = "getPaymasterBalance" =>
           /\ request'[c].paymaster \in Paymaster
           /\ deposits'[request'[c].paymaster] = Unread,
         answer'[c] # Unread =>
           /\ pc'[c] = "getPaymasterBalance"
           /\ answer'[c] = (Owed(request[c].paymaster))',
         pc'[c] = "addUserOp" /\ request'[c].paymaster # Absent =>
           Needed(pool', request'[c]) <= (Owed(request[c].paymaster))'
  PROVE  ExecInv'
<1>1. \A d \in Client : d # c =>
        pc'[d] \notin {"getPaymasterBalance", "addUserOp"} /\ answer'[d] = Unread
  BY Alone DEF Admitting
<1>2. DepositsRead'
  <2>1. ASSUME NEW d \in Client
        PROVE  /\ pc'[d] = "getPaymasterBalance" =>
                    /\ request'[d].paymaster \in Paymaster
                    /\ deposits'[request'[d].paymaster] = Unread
               /\ answer'[d] # Unread =>
                    /\ pc'[d] = "getPaymasterBalance"
                    /\ answer'[d] = (Owed(request[d].paymaster))'
               /\ pc'[d] = "addUserOp" /\ request'[d].paymaster # Absent =>
                    Needed(pool', request'[d]) <= (Owed(request[d].paymaster))'
    <3>1. CASE d # c
      BY <1>1, <3>1
    <3>2. CASE d = c
      BY <3>2
    <3> QED
      BY <3>1, <3>2
  <2> QED
    BY <2>1 DEF DepositsRead
<1> QED
  BY <1>2 DEF ExecInv

LEMMA CoversNeeded ==
  ASSUME NEW deposit \in Nat, NEW op \in UserOp, IsFiniteSet(pool), pool \in SUBSET UserOp,
         Covers(deposit, op)
  PROVE  Needed(pool, op) <= deposit
<1>1. Needed(pool, op) \in Nat
  BY NeededType
<1> QED
  BY <1>1 DEF Covers, Needed

LEMMA KeptByCheck ==
  ASSUME ExecInv, NEW c \in Client, CheckPaymasterDeposit(c)
  PROVE  ExecInv'
<1>0. /\ pc[c] = "checkPaymasterDeposit"
      /\ UNCHANGED <<pool, bundle, deposits, answer, chainVars>>
  BY DEF CheckPaymasterDeposit
<1>1. c \in Caller /\ request[c] \in UserOp /\ Holds(execQueue, c)
  BY <1>0, Alone DEF Admitting
<1> DEFINE p == request[c].paymaster
<1>2. p \in Paymaster \union {Absent}
  BY <1>1, ExecutionAssumption
<1>3. SameOwed
  BY <1>0, ChainStays
<1>4. answer[c] = Unread
  BY <1>0 DEF ExecInv, DepositsRead
<1>5. CASE Leave(c)
  BY <1>0, <1>1, <1>3, <1>5, LeavingKeeps
<1>6. ASSUME NEW place \in {"getPaymasterBalance", "addUserOp"}, Goto(c, place),
             UNCHANGED <<execQueue, request>>,
             place = "getPaymasterBalance" => p # Absent /\ deposits[p] = Unread,
             place = "addUserOp" /\ p # Absent =>
               deposits[p] # Unread /\ Covers(deposits[p], request[c])
      PROVE  ExecInv'
  <2>1. Exclusive' /\ pc' \in [Caller -> Places]
    <3>1. place \in Places \ {"idle", "queued"}
      BY <1>6 DEF Places
    <3>2. request[c] # Absent
      BY <1>1, ExecutionAssumption
    <3> QED
      BY <1>1, <1>6, <3>1, <3>2, GotoKeeps
  <2>2. ExecTypes'
    BY <1>0, <1>6, <2>1 DEF ExecInv, ExecTypes, chainVars
  <2>3. pc'[c] = place /\ \A d \in Client : d # c => pc'[d] = pc[d]
    BY <1>1, <1>6 DEF Goto, ExecInv, ExecTypes, Caller
  <2>4. \A q \in Paymaster : deposits'[q] # Unread => deposits'[q] = Owed(q)'
    BY <1>0, <1>3 DEF ExecInv, DepositsRead, SameOwed
  <2>5. ASSUME place = "addUserOp", request'[c].paymaster # Absent
        PROVE  Needed(pool', request'[c]) <= (Owed(request[c].paymaster))'
    <3>1. PICK op \in UserOp : op = request[c] /\ op = request'[c] /\ op.paymaster \in Paymaster
      BY <1>1, <1>2, <1>6, <2>5
    <3>2. deposits[op.paymaster] # Unread /\ Covers(deposits[op.paymaster], op)
      BY <1>6, <2>5, <3>1
    <3>3. deposits[op.paymaster] \in Nat /\ deposits[op.paymaster] = Owed(op.paymaster)
      BY <3>1, <3>2 DEF ExecInv, ExecTypes, DepositsRead
    <3>4. Needed(pool, op) <= Owed(op.paymaster)
      BY <3>2, <3>3, CoversNeeded DEF ExecInv, ExecTypes
    <3>5. Owed(op.paymaster)' = Owed(op.paymaster)
      BY <1>3, <3>1 DEF SameOwed
    <3>6. (Owed(request[c].paymaster))' = Owed(op.paymaster)'
      BY <3>1 DEF Owed
    <3> QED
      BY <1>0, <3>1, <3>4, <3>5, <3>6
  <2>6. place = "getPaymasterBalance" =>
          /\ request'[c].paymaster \in Paymaster
          /\ deposits'[request'[c].paymaster] = Unread
    BY <1>0, <1>2, <1>6
  <2>7. pc[c] \in Admitting
    BY <1>0 DEF Admitting
  <2>8. \A q \in Paymaster : chargedSince'[q] \subseteq SponsoredBy(mined', q)
    BY <1>3 DEF SameOwed
  <2> QED
    BY <1>0, <1>4, <2>1, <2>2, <2>3, <2>4, <2>5, <2>6, <2>7, <2>8, AdmittingKeeps
<1>7. \/ Leave(c)
      \/ /\ Goto(c, "addUserOp") /\ UNCHANGED <<execQueue, request>>
         /\ p # Absent => deposits[p] # Unread /\ Covers(deposits[p], request[c])
      \/ /\ Goto(c, "getPaymasterBalance") /\ UNCHANGED <<execQueue, request>>
         /\ p # Absent /\ deposits[p] = Unread
  BY DEF CheckPaymasterDeposit, Decide
<1> QED
  BY <1>5, <1>6, <1>7

LEMMA KeptByRead ==
  ASSUME ExecInv, NEW c \in Client, NodeReads(c)
  PROVE  ExecInv'
<1>0. /\ pc[c] = "getPaymasterBalance" /\ pc[c] \in Admitting
      /\ UNCHANGED <<pool, pc, request, execQueue, bundle, deposits, balance, mined>>
  BY DEF NodeReads, Admitting
<1>1. c \in Caller /\ request[c] \in UserOp
  BY <1>0, Alone
<1>2. PICK p \in Paymaster : p = request[c].paymaster
  BY <1>0 DEF ExecInv, DepositsRead
<1>3. /\ deposits[p] = Unread
      /\ answer' = [answer EXCEPT ![c] = balance[p]]
      /\ chargedSince' = [chargedSince EXCEPT ![p] = {}]
  BY <1>0, <1>2 DEF ExecInv, DepositsRead, NodeReads
<1>4. balance[p] \in Nat
  BY DEF ExecInv, ExecTypes
<1>5. ExecTypes'
  BY <1>0, <1>3, <1>4 DEF ExecInv, ExecTypes
<1>6. Exclusive'
  BY <1>0 DEF ExecInv, Exclusive, Holds
<1>7. \A q \in Paymaster : q # p => Owed(q)' = Owed(q)
  BY <1>0, <1>3 DEF Owed, ExecInv, ExecTypes
<1>8. Owed(p)' = balance[p]
  <2>1. chargedSince'[p] = {}
    BY <1>3 DEF ExecInv, ExecTypes
  <2>2. Owed(p)' = balance'[p] + Total(Cost, {})
    BY <2>1 DEF Owed, Cost
  <2> QED
    BY <1>0, <1>4, <2>2, TotalEmpty
<1>9. \A q \in Paymaster : chargedSince'[q] \subseteq SponsoredBy(mined', q)
  BY <1>0, <1>3 DEF ExecInv, ExecTypes, DepositsRead
<1>10. \A q \in Paymaster : deposits'[q] # Unread => deposits'[q] = Owed(q)'
  BY <1>0, <1>3, <1>7 DEF ExecInv, DepositsRead
<1>11. answer'[c] = balance[p] /\ \A d \in Client : d # c => answer'[d] = answer[d]
  BY <1>3 DEF ExecInv, ExecTypes
<1>12. (Owed(request[c].paymaster))' = Owed(p)'
  BY <1>0, <1>2 DEF Owed
<1> QED
  BY <1>0, <1>2, <1>3, <1>5, <1>6, <1>8, <1>9, <1>10, <1>11, <1>12, AdmittingKeeps

LEMMA KeptByAnswer ==
  ASSUME ExecInv, NEW c \in Client, BalanceArrives(c)
  PROVE  ExecInv'
<1>0. /\ pc[c] = "getPaymasterBalance" /\ pc[c] \in Admitting /\ answer[c] # Unread
      /\ UNCHANGED <<pool, bundle, chainVars>>
      /\ answer' = [answer EXCEPT ![c] = Unread]
  BY DEF BalanceArrives, Admitting
<1>1. c \in Caller /\ Holds(execQueue, c)
  BY <1>0, Alone
<1>2. PICK op \in UserOp : op = request[c]
  BY <1>0, Alone
<1>3. PICK p \in Paymaster : p = op.paymaster
  BY <1>0, <1>2 DEF ExecInv, DepositsRead
<1>4. /\ answer[c] = Owed(p) /\ answer[c] \in Nat
      /\ deposits' = [deposits EXCEPT ![p] = answer[c]]
  BY <1>0, <1>2, <1>3 DEF ExecInv, ExecTypes, DepositsRead, BalanceArrives
<1>5. SameOwed
  BY <1>0, ChainStays
<1>6. \/ Leave(c)
      \/ Covers(answer[c], op) /\ Goto(c, "addUserOp") /\ UNCHANGED <<execQueue, request>>
  BY <1>2 DEF BalanceArrives, Decide
<1>7. /\ Exclusive' /\ pc' \in [Caller -> Places]
      /\ request' \in [Caller -> UserOp \union {Absent}] /\ execQueue' \in Seq(Client)
      /\ \A d \in Client : d # c => pc'[d] = pc[d]
      /\ \/ pc'[c] = "idle"
         \/ pc'[c] = "addUserOp" /\ Covers(answer[c], op) /\ request'[c] = op
  <2>0. \A d \in Client : d \in Caller
    BY DEF Caller
  <2>1. CASE Leave(c)
    BY <1>1, <2>0, <2>1, LeaveKeeps
  <2>2. CASE Covers(answer[c], op) /\ Goto(c, "addUserOp") /\ UNCHANGED <<execQueue, request>>
    <3>1. Exclusive' /\ pc' \in [Caller -> Places]
      <4>1. "addUserOp" \in Places \ {"idle", "queued"} /\ request[c] # Absent
        BY <1>2, ExecutionAssumption DEF Places
      <4> QED
        BY <1>1, <2>2, <4>1, GotoKeeps
    <3>2. pc'[c] = "addUserOp" /\ \A d \in Caller : d # c => pc'[d] = pc[d]
      BY <1>1, <2>2 DEF Goto, ExecInv, ExecTypes
    <3> QED
      BY <1>2, <2>0, <2>2, <3>1, <3>2 DEF ExecInv, ExecTypes
  <2> QED
    BY <1>6, <2>1, <2>2
<1>8. ExecTypes'
  BY <1>0, <1>4, <1>5, <1>7 DEF ExecInv, ExecTypes, SameOwed
<1>9. \A q \in Paymaster : deposits'[q] # Unread => deposits'[q] = Owed(q)'
  BY <1>4, <1>5 DEF ExecInv, ExecTypes, DepositsRead, SameOwed
<1>10. /\ answer'[c] = Unread
       /\ \A d \in Client : d # c => answer'[d] = answer[d]
  BY <1>0 DEF ExecInv, ExecTypes
<1>11. ASSUME pc'[c] = "addUserOp", request'[c].paymaster # Absent
       PROVE  Needed(pool', request'[c]) <= (Owed(request[c].paymaster))'
  <2>1. Covers(answer[c], op) /\ request'[c] = op
    BY <1>7, <1>11
  <2>2. Needed(pool, op) <= Owed(p)
    BY <1>4, <2>1, CoversNeeded DEF ExecInv, ExecTypes
  <2>3. (Owed(request[c].paymaster))' = Owed(p)'
    BY <1>3, <2>1 DEF Owed
  <2>4. Owed(p)' = Owed(p)
    BY <1>5 DEF SameOwed
  <2> QED
    BY <1>0, <2>1, <2>2, <2>3, <2>4
<1>12. \A q \in Paymaster : chargedSince'[q] \subseteq SponsoredBy(mined', q)
  BY <1>5 DEF SameOwed
<1>13. pc'[c] # "getPaymasterBalance"
  BY <1>7
<1> QED
  BY <1>0, <1>7, <1>8, <1>9, <1>10, <1>11, <1>12, <1>13, AdmittingKeeps

LEMMA KeptByAdd ==
  ASSUME ExecInv, NEW c \in Client, AddUserOp(c)
  PROVE  ExecInv'
<1>0. /\ pc[c] = "addUserOp" /\ pc[c] \in Admitting
      /\ UNCHANGED <<bundle, deposits, answer, chainVars>>
  BY DEF AddUserOp, Admitting
<1>1. c \in Caller /\ request[c] \in UserOp /\ Holds(execQueue, c)
  BY <1>0, Alone
<1>2. SameOwed
  BY <1>0, ChainStays
<1>3. pool' \in SUBSET UserOp /\ IsFiniteSet(pool')
  <2>1. \/ pool' = pool \union {request[c]}
        \/ \E old \in pool : pool' = (pool \ {old}) \union {request[c]}
    BY DEF AddUserOp, Put, Replace
  <2>2. pool \in SUBSET UserOp /\ IsFiniteSet(pool)
    BY DEF ExecInv, ExecTypes
  <2>3. IsFiniteSet(pool \union {request[c]})
    BY <2>2, FS_AddElement
  <2>4. pool' \subseteq pool \union {request[c]}
    BY <2>1
  <2> QED
    BY <1>1, <2>2, <2>3, <2>4, FinitePart
<1>4. /\ Exclusive' /\ pc' \in [Caller -> Places]
      /\ request' \in [Caller -> UserOp \union {Absent}] /\ execQueue' \in Seq(Client)
      /\ \A d \in Client : d # c => pc'[d] = pc[d]
      /\ pc'[c] \in {"idle", "sendNextBundle"}
  <2>0. \A d \in Client : d \in Caller
    BY DEF Caller
  <2>1. CASE Leave(c)
    BY <1>1, <2>0, <2>1, LeaveKeeps
  <2>2. CASE Goto(c, "sendNextBundle") /\ UNCHANGED <<execQueue, request>>
    <3>1. Exclusive' /\ pc' \in [Caller -> Places]
      <4>1. "sendNextBundle" \in Places \ {"idle", "queued"} /\ "sendNextBundle" \notin Admitting
        BY DEF Places, Admitting
      <4> QED
        BY <1>1, <2>2, <4>1, GotoKeeps
    <3>2. pc'[c] = "sendNextBundle" /\ \A d \in Caller : d # c => pc'[d] = pc[d]
      BY <1>1, <2>2 DEF Goto, ExecInv, ExecTypes
    <3> QED
      BY <2>0, <2>2, <3>1, <3>2 DEF ExecInv, ExecTypes
  <2> QED
    BY <2>1, <2>2 DEF AddUserOp
<1>5. ExecTypes'
  BY <1>0, <1>2, <1>3, <1>4 DEF ExecInv, ExecTypes, SameOwed
<1>6. \A q \in Paymaster : deposits'[q] # Unread => deposits'[q] = Owed(q)'
  BY <1>0, <1>2 DEF ExecInv, DepositsRead, SameOwed
<1>7. answer'[c] = Unread /\ \A d \in Client : d # c => answer'[d] = answer[d]
  BY <1>0 DEF ExecInv, DepositsRead
<1>8. \A q \in Paymaster : chargedSince'[q] \subseteq SponsoredBy(mined', q)
  BY <1>2 DEF SameOwed
<1>9. pc'[c] \notin {"getPaymasterBalance", "addUserOp"}
  BY <1>4
<1> QED
  BY <1>0, <1>4, <1>5, <1>6, <1>7, <1>8, <1>9, AdmittingKeeps

LEMMA KeptByScan ==
  ASSUME ExecInv, NEW c \in Caller, FlushFirst(c)
  PROVE  ExecInv'
<1>1. /\ UNCHANGED <<request, execQueue, bundle, deposits, answer, chainVars>>
      /\ pc[c] = "sendNextBundle" /\ pool' \subseteq pool /\ Goto(c, "createBundle")
  BY DEF FlushFirst, Flush
<1>2. request[c] # Absent => Holds(execQueue, c)
  BY <1>1 DEF ExecInv, Exclusive
<1>3. SameOwed
  BY <1>1, ChainStays
<1>4. "createBundle" \in Places \ {"idle", "queued", "getPaymasterBalance", "addUserOp"}
      /\ "createBundle" \notin Admitting
  BY DEF Places, Admitting
<1> QED
  BY <1>1, <1>2, <1>3, <1>4, OnlyMoves

LEMMA KeptByCreate ==
  ASSUME ExecInv, NEW c \in Caller, CreateBundle(c)
  PROVE  ExecInv'
<1>1. /\ UNCHANGED <<request, execQueue, deposits, answer, chainVars>>
      /\ pc[c] = "createBundle" /\ Goto(c, "sendBundle")
      /\ pool' \subseteq pool /\ bundle' \subseteq pool \union bundle
  BY DEF CreateBundle
<1>2. request[c] # Absent => Holds(execQueue, c)
  BY <1>1 DEF ExecInv, Exclusive
<1>3. SameOwed
  BY <1>1, ChainStays
<1>4. "sendBundle" \in Places \ {"idle", "queued", "getPaymasterBalance", "addUserOp"}
      /\ "sendBundle" \notin Admitting
  BY DEF Places, Admitting
<1> QED
  BY <1>1, <1>2, <1>3, <1>4, OnlyMoves

LEMMA KeptBySending ==
  ASSUME ExecInv, NEW c \in Caller, BundleMined(c) \/ SendFails(c)
  PROVE  ExecInv'
<1>1. /\ UNCHANGED <<request, execQueue, deposits, answer>>
      /\ pc[c] = "sendBundle" /\ pool' \subseteq pool /\ bundle' = {} /\ Returned(c)
  BY DEF BundleMined, SendFails, Returned
<1>2. request[c] # Absent => Holds(execQueue, c)
  BY <1>1 DEF ExecInv, Exclusive
<1>3. SameOwed
  <2>1. CASE Mine(bundle)
    BY <2>1, MineKeeps DEF ExecInv, ExecTypes
  <2>2. CASE UNCHANGED chainVars
    BY <2>2, ChainStays
  <2> QED
    BY <2>1, <2>2 DEF BundleMined, SendFails
<1>4. PICK place \in {"handlePastEvents", "clearCache"} : Goto(c, place)
  BY <1>1 DEF Returned
<1>5. place \in Places \ {"idle", "queued", "getPaymasterBalance", "addUserOp"}
      /\ place \notin Admitting
  BY <1>4 DEF Places, Admitting
<1> QED
  BY <1>1, <1>2, <1>3, <1>4, <1>5, OnlyMoves

LEMMA KeptByException ==
  ASSUME ExecInv, NEW c \in Caller, NextBundleThrows(c)
  PROVE  ExecInv'
<1>1. /\ UNCHANGED <<pool, deposits, answer, chainVars>> /\ bundle' = {} /\ Leave(c)
      /\ pc[c] \in {"sendNextBundle", "createBundle", "sendBundle"}
  BY DEF NextBundleThrows
<1>2. request[c] # Absent => Holds(execQueue, c)
  BY <1>1 DEF ExecInv, Exclusive
<1>3. SameOwed
  BY <1>1, ChainStays
<1> QED
  BY <1>1, <1>2, <1>3, LeavingKeeps

LEMMA KeptByEnd ==
  ASSUME ExecInv, NEW c \in Caller, FlushAgain(c) \/ ClearCache(c) \/ FlushLast(c)
  PROVE  ExecInv'
<1>1. /\ UNCHANGED <<bundle, answer, chainVars>>
      /\ pool' \subseteq pool /\ deposits' \in {deposits, [p \in Paymaster |-> Unread]}
      /\ pc[c] \in {"handlePastEvents", "clearCache", "flushLast"}
  BY DEF FlushAgain, ClearCache, FlushLast, Flush
<1>2. request[c] # Absent => Holds(execQueue, c)
  BY <1>1 DEF ExecInv, Exclusive
<1>3. SameOwed
  BY <1>1, ChainStays
<1>4. CASE Leave(c)
  BY <1>1, <1>2, <1>3, <1>4, LeavingKeeps
<1>5. ASSUME NEW place \in {"clearCache", "flushLast"}, Goto(c, place),
             UNCHANGED <<execQueue, request>>
      PROVE  ExecInv'
  <2>1. place \in Places \ {"idle", "queued"} /\ place \notin Admitting
    BY <1>5 DEF Places, Admitting
  <2>2. Exclusive' /\ pc' \in [Caller -> Places]
    BY <1>2, <1>5, <2>1, GotoKeeps
  <2>3. pc'[c] = place /\ \A d \in Caller : d # c => pc'[d] = pc[d]
    BY <1>5 DEF Goto, ExecInv, ExecTypes
  <2>4. request' \in [Caller -> UserOp \union {Absent}] /\ execQueue' \in Seq(Client)
    BY <1>5 DEF ExecInv, ExecTypes
  <2> QED
    BY <1>1, <1>3, <1>5, <2>2, <2>3, <2>4, MoveKeeps
<1> QED
  BY <1>4, <1>5 DEF FlushAgain, ClearCache, FlushLast

LEMMA KeptByForce ==
  ASSUME ExecInv, NEW c \in Caller, ForceAttempt(c)
  PROVE  ExecInv'
<1>1. /\ UNCHANGED <<pool, request, execQueue, bundle, deposits, answer, chainVars>>
      /\ pc[c] = "idle" /\ Goto(c, "sendNextBundle")
  BY DEF ForceAttempt
<1>2. request[c] # Absent => Holds(execQueue, c)
  BY <1>1 DEF ExecInv, Exclusive
<1>3. SameOwed
  BY <1>1, ChainStays
<1>4. "sendNextBundle" \in Places \ {"idle", "queued", "getPaymasterBalance", "addUserOp"}
      /\ "sendNextBundle" \notin Admitting
  BY DEF Places, Admitting
<1> QED
  BY <1>1, <1>2, <1>3, <1>4, OnlyMoves

LEMMA KeptByOthers ==
  ASSUME ExecInv,
         \/ \E on \in BOOLEAN, size \in PoolSizes : SetAutoBundler(on, size)
         \/ \E op \in UserOp : EventArrives(op) \/ Include(op)
  PROVE  ExecInv'
<1>1. UNCHANGED <<pc, request, execQueue, bundle, deposits, answer>> /\ pool' \subseteq pool
  BY DEF SetAutoBundler, EventArrives, Include
<1>2. SameOwed
  <2>1. CASE UNCHANGED chainVars
    BY <2>1, ChainStays
  <2>2. ASSUME NEW op \in UserOp, Mine({op}) PROVE SameOwed
    BY <2>2, FS_Singleton, MineKeeps
  <2> QED
    BY <2>1, <2>2 DEF SetAutoBundler, EventArrives, Include
<1> QED
  BY <1>1, <1>2, RestKeeps

LEMMA ExecStep == ExecInv /\ [ExecNext]_execVars => ExecInv'
<1> SUFFICES ASSUME ExecInv, [ExecNext]_execVars PROVE ExecInv'
  OBVIOUS
<1>1. CASE UNCHANGED execVars
  <2>1. UNCHANGED <<pool, pc, request, execQueue, bundle, deposits, answer, chainVars>>
    BY <1>1 DEF execVars
  <2>2. SameOwed
    BY <2>1, ChainStays
  <2> QED
    BY <2>1, <2>2, RestKeeps
<1>2. CASE \E c \in Client, op \in UserOp : SendUserOperation(c, op)
  BY <1>2, KeptBySend
<1>3. ASSUME NEW c \in Client, ClientStep(c) PROVE ExecInv'
  BY <1>3, KeptByValidation, KeptByRefusal, KeptByCheck, KeptByRead, KeptByAnswer, KeptByAdd
     DEF ClientStep
<1>4. ASSUME NEW c \in Caller, AttemptStep(c) PROVE ExecInv'
  BY <1>4, KeptByScan, KeptByCreate, KeptBySending, KeptByException, KeptByEnd
     DEF AttemptStep
<1>5. CASE (\E t \in Timer : TimerFires(t)) \/ (\E c \in Client : SendBundleNow(c))
  BY <1>5, KeptByForce DEF TimerFires, SendBundleNow, Caller
<1> QED
  BY <1>1, <1>2, <1>3, <1>4, <1>5, KeptByOthers DEF ExecNext

LEMMA ExecStaysSound == ExecSpec => []ExecInv
BY InitExec, ExecStep, PTL DEF ExecSpec

-----------------------------------------------------------------------------
(* Admission                                                               *)

\* What one operation more may cost is what the check asked for.
LEMMA AdmittedCost ==
  ASSUME NEW ops \in SUBSET UserOp, IsFiniteSet(ops), NEW op \in UserOp,
         NEW more, more \subseteq ops \union {op},
         \A q \in UserOp : q.paymaster = op.paymaster => q.cost = op.cost
  PROVE  Total(Cost, SponsoredBy(more, op.paymaster)) <= Needed(ops, op)
<1> DEFINE S == SponsoredBy(ops, op.paymaster)
           T == SponsoredBy(more, op.paymaster)
<1>1. T \subseteq S \union {op} /\ T \subseteq UserOp
  BY DEF SponsoredBy
<1>2. IsFiniteSet(S) /\ Cardinality(S) \in Nat
  BY NeededType
<1>3. \A x \in T : Cost[x] = op.cost
  BY CostType DEF SponsoredBy
<1> HIDE DEF S, T
<1>4. IsFiniteSet(S \union {op}) /\ Cardinality(S \union {op}) <= Cardinality(S) + 1
      /\ Cardinality(S \union {op}) \in Nat
  <2>1. /\ IsFiniteSet(S \union {op})
        /\ Cardinality(S \union {op}) = Cardinality(S) \/ Cardinality(S \union {op}) = Cardinality(S) + 1
    <3>1. CASE op \in S
      <4>1. S \union {op} = S
        BY <3>1
      <4> QED
        BY <1>2, <4>1
    <3>2. CASE op \notin S
      BY <1>2, <3>2, FS_AddElement
    <3> QED
      BY <3>1, <3>2
  <2> QED
    BY <1>2, <2>1
<1>5. IsFiniteSet(T) /\ Cardinality(T) \in Nat /\ Cardinality(T) <= Cardinality(S \union {op})
  BY <1>1, <1>4, FS_Subset, FS_CardinalityType
<1>6. op.cost \in Nat
  BY ExecutionAssumption
<1>7. Total(Cost, T) = op.cost * Cardinality(T)
  BY <1>3, <1>5, <1>6, TotalOfOneWeight
<1>8. Cardinality(T) <= 1 + Cardinality(S) /\ 1 + Cardinality(S) \in Nat
  BY <1>2, <1>4, <1>5
<1>9. op.cost * Cardinality(T) <= op.cost * (1 + Cardinality(S))
  BY <1>5, <1>6, <1>8, TimesMonotone
<1> QED
  BY <1>7, <1>9 DEF Needed, S, T

\* Operations of a paymaster all cost the same.
OneCost ==
  \A p, q \in UserOp : p.paymaster = q.paymaster /\ p.paymaster # Absent => p.cost = q.cost

Admitted ==
  \A op \in pool' \ pool : op.paymaster # Absent =>
    Charge(pool' \ mined', op.paymaster)
      <= balance'[op.paymaster]
           + Charge(chargedSince'[op.paymaster] \ pool', op.paymaster)

\* The operations that are pending, those that are on chain and still in the
\* mempool, and what was charged for others, against the deposit that was read.
LEMMA CoveredWhenAdded ==
  ASSUME ExecInv, ExecInv', OneCost, NEW c \in Client, AddUserOp(c)
  PROVE  Admitted
<1>1. /\ pc[c] = "addUserOp" /\ UNCHANGED chainVars
      /\ \/ pool' = pool \union {request[c]}
         \/ \E old \in pool : pool' = (pool \ {old}) \union {request[c]}
  BY DEF AddUserOp, Put, Replace
<1>2. SUFFICES ASSUME NEW op \in pool' \ pool, op.paymaster # Absent
               PROVE  Charge(pool' \ mined', op.paymaster)
                        <= balance'[op.paymaster]
                             + Charge(chargedSince'[op.paymaster] \ pool', op.paymaster)
  BY DEF Admitted
<1>3. op = request[c] /\ op \in UserOp /\ pool' \subseteq pool \union {op}
  BY <1>1, Alone DEF Admitting
<1>4. PICK p \in Paymaster : p = op.paymaster
  BY <1>2, <1>3, ExecutionAssumption
<1>5. Needed(pool, op) <= Owed(p)
  BY <1>1, <1>2, <1>3, <1>4 DEF ExecInv, DepositsRead
<1>6. PICK after \in SUBSET UserOp : after = pool' /\ IsFiniteSet(after)
  BY DEF ExecInv, ExecTypes
<1>7. PICK charged \in SUBSET UserOp :
        charged = chargedSince[p] /\ IsFiniteSet(charged) /\ charged \subseteq SponsoredBy(mined, p)
  BY OwedType DEF ExecInv, DepositsRead
<1>8. mined' = mined /\ balance'[p] = balance[p] /\ chargedSince'[p] = charged
      /\ balance[p] \in Nat
  BY <1>1, <1>7 DEF chainVars, ExecInv, ExecTypes
<1> DEFINE all == SponsoredBy(after, p)
           pending == SponsoredBy(after \ mined, p)
           done == all \intersect mined
           gone == charged \ after
           left == charged \intersect after
<1>9. /\ all = pending \union done /\ pending \intersect done = {}
      /\ charged = gone \union left /\ gone \intersect left = {}
      /\ left \subseteq done
      /\ SponsoredBy(gone, p) = gone
      /\ all \subseteq UserOp
  BY <1>7 DEF SponsoredBy
<1>10. /\ IsFiniteSet(all) /\ IsFiniteSet(pending) /\ IsFiniteSet(done)
       /\ IsFiniteSet(gone) /\ IsFiniteSet(left)
  <2>1. all \subseteq after /\ pending \subseteq after /\ done \subseteq after
    BY DEF SponsoredBy
  <2>2. gone \subseteq charged /\ left \subseteq charged
    OBVIOUS
  <2> HIDE DEF all, pending, done, gone, left
  <2> QED
    BY <1>6, <1>7, <2>1, <2>2, FinitePart
<1>11. Charge(after \ mined, p) = Total(Cost, pending) /\ Charge(gone, p) = Total(Cost, gone)
  <2>1. Charge(after \ mined, p) = Total(Cost, pending)
    <3>1. after \ mined \in SUBSET UserOp /\ IsFiniteSet(after \ mined)
      BY <1>6, FinitePart
    <3> QED
      BY <3>1, ChargeTotal
  <2>2. Charge(gone, p) = Total(Cost, SponsoredBy(gone, p))
    BY <1>10, ChargeTotal
  <2> QED
    BY <1>9, <2>1, <2>2
<1>12. Total(Cost, all) <= Needed(pool, op)
  <2>1. \A q \in UserOp : q.paymaster = op.paymaster => q.cost = op.cost
    BY <1>2, <1>3 DEF OneCost
  <2>2. after \subseteq pool \union {op}
    BY <1>3, <1>6
  <2>3. pool \in SUBSET UserOp /\ IsFiniteSet(pool)
    BY DEF ExecInv, ExecTypes
  <2>4. Total(Cost, SponsoredBy(after, op.paymaster)) <= Needed(pool, op)
    BY <1>3, <2>1, <2>2, <2>3, AdmittedCost
  <2> QED
    BY <1>4, <2>4
<1>13. Owed(p) = balance[p] + Total(Cost, charged)
  BY <1>7 DEF Owed
<1> HIDE DEF all, pending, done, gone, left
<1>14. /\ \A x \in all : Cost[x] \in Nat
       /\ \A x \in charged : Cost[x] \in Nat
  BY <1>7, <1>9, CostType
<1>15. Total(Cost, all) = Total(Cost, pending) + Total(Cost, done)
  BY <1>9, <1>10, <1>14, TotalDisjoint
<1>16. Total(Cost, charged) = Total(Cost, gone) + Total(Cost, left)
  BY <1>9, <1>10, <1>14, TotalDisjoint
<1>17. Total(Cost, left) <= Total(Cost, done)
  BY <1>9, <1>10, <1>14, TotalSubset
<1>18. /\ Total(Cost, pending) \in Nat /\ Total(Cost, done) \in Nat
       /\ Total(Cost, gone) \in Nat /\ Total(Cost, left) \in Nat
  BY <1>9, <1>10, <1>14, TotalType
<1>19. Needed(pool, op) \in Nat
  BY <1>3, NeededType DEF ExecInv, ExecTypes
<1>20. Total(Cost, pending) <= balance[p] + Total(Cost, gone)
  BY <1>5, <1>8, <1>12, <1>13, <1>15, <1>16, <1>17, <1>18, <1>19
<1> QED
  BY <1>4, <1>6, <1>8, <1>11, <1>20 DEF gone

\* Nothing else joins the mempool.
LEMMA AddedAreCovered ==
  ASSUME ExecInv, ExecInv', OneCost, [ExecNext]_execVars
  PROVE  [Admitted]_execVars
<1>1. CASE pool' \subseteq pool
  BY <1>1 DEF Admitted
<1>2. CASE \E c \in Client : AddUserOp(c)
  BY <1>2, CoveredWhenAdded
<1>3. (\A c \in Client : ~AddUserOp(c)) => pool' \subseteq pool
  <2> SUFFICES ASSUME \A c \in Client : ~AddUserOp(c) PROVE pool' \subseteq pool
    OBVIOUS
  <2>1. CASE UNCHANGED execVars
    BY <2>1 DEF execVars
  <2>2. ASSUME NEW c \in Client, ClientStep(c) PROVE pool' \subseteq pool
    BY <2>2 DEF ClientStep, ValidateInput, Validated, HashArrives, Refused,
                CheckPaymasterDeposit, NodeReads, BalanceArrives
  <2>3. ASSUME NEW c \in Caller, AttemptStep(c) PROVE pool' \subseteq pool
    BY <2>3 DEF AttemptStep, FlushFirst, CreateBundle, BundleMined, SendFails,
                NextBundleThrows, FlushAgain, ClearCache, FlushLast, Flush
  <2>4. CASE \/ \E c \in Client, op \in UserOp : SendUserOperation(c, op)
             \/ \E t \in Timer : TimerFires(t)
             \/ \E c \in Client : SendBundleNow(c)
             \/ \E on \in BOOLEAN, size \in PoolSizes : SetAutoBundler(on, size)
             \/ \E op \in UserOp : EventArrives(op) \/ Include(op)
    BY <2>4 DEF SendUserOperation, TimerFires, SendBundleNow, ForceAttempt, SetAutoBundler,
                EventArrives, Include
  <2> QED
    BY <2>1, <2>2, <2>3, <2>4 DEF ExecNext
<1> QED
  BY <1>1, <1>2, <1>3

\* When an operation of a paymaster is admitted, its pending operations are
\* paid for by its deposit and by what was charged, since the node last read it,
\* for operations that have left the mempool (ExecutionManager.ts:61-69,
\* DepositManager.ts:30-47).  The check assumes that the operations of a
\* paymaster cost the same.
THEOREM AdmissionStaysCovered ==
  ASSUME OneCost
  PROVE  ExecSpec => AdmissionCovered
<1>1. ExecSpec => [][Admitted]_execVars
  BY ExecStaysSound, AddedAreCovered, PTL DEF ExecSpec
<1>2. [][Admitted]_execVars => AdmissionCovered
  BY DEF Admitted, AdmissionCovered
<1> QED
  BY <1>1, <1>2

-----------------------------------------------------------------------------
(* The server                                                              *)

BatchInv ==
  /\ DOMAIN batch = Client /\ \A c \in Client : batch[c] \in Batch[c] \union {<<>>}
  /\ replies \in [Client -> Seq({"result", "error"})]

LEMMA CurrentIsTyped ==
  ASSUME BatchInv, NEW c \in Client, Ready(c), Current(c) # Null
  PROVE  /\ Current(c).method = "eth_sendUserOperation" => Current(c).op \in UserOp
         /\ Current(c).method \in ModeMethods =>
              Current(c).on \in BOOLEAN /\ Current(c).size \in PoolSizes
<1> DEFINE items == batch[c]
           n == Len(replies[c])
<1>1. n \in Nat /\ n < Len(items)
  BY DEF BatchInv, Ready
<1>2. items \in Batch[c]
  BY <1>1 DEF BatchInv
<1>3. items \in Seq(Range(items))
  BY <1>2, ServerAssumption
<1>4. Len(items) \in Nat /\ DOMAIN items = 1..Len(items)
  BY <1>3
<1>5. n + 1 \in DOMAIN items
  BY <1>1, <1>4
<1>6. Current(c) \in Range(items)
  BY <1>5 DEF Current, Range
<1>7. Current(c) \in Range(items) \ {Null}
  BY <1>6
<1> HIDE DEF items
<1> QED
  BY <1>2, <1>7, ServerAssumption

\* clearState and clearMempool empty the mempool; every other step of the
\* server is a step of the ExecutionManager or none of its concern.
Cleared ==
  /\ pool' = {}
  /\ UNCHANGED <<pc, request, execQueue, bundle, deposits, answer, chainVars>>

LEMMA ServerStepIsExecStep ==
  ASSUME BatchInv, [ServerNext]_allVars
  PROVE  [ExecNext]_execVars \/ Cleared
<1>1. CASE UNCHANGED allVars
  BY <1>1 DEF allVars
<1>2. CASE \E c \in Client : \E p \in {"public", "private"}, items \in Batch[c] : Post(c, p, items)
  BY <1>2 DEF Post
<1>3. ASSUME NEW c \in Client, HandlerStep(c) PROVE [ExecNext]_execVars \/ Cleared
  <2>1. CASE HandleSend(c)
    <3>1. SendUserOperation(c, Current(c).op) /\ Current(c).op \in UserOp
      BY <2>1, CurrentIsTyped DEF HandleSend, Serves
    <3> QED
      BY <3>1 DEF ExecNext
  <2>2. CASE HandleSendBundleNow(c)
    BY <2>2 DEF HandleSendBundleNow, ExecNext
  <2>3. CASE HandleMode(c)
    <3>1. /\ SetAutoBundler(Current(c).on, Current(c).size)
          /\ Current(c).on \in BOOLEAN /\ Current(c).size \in PoolSizes
      BY <2>3, CurrentIsTyped DEF HandleMode, Serves
    <3> QED
      BY <3>1 DEF ExecNext
  <2>4. CASE HandleClear(c)
    BY <2>4 DEF HandleClear, Cleared
  <2>5. CASE \/ Throws(c) \/ Rejected(c) \/ BadParameters(c) \/ HandleLocal(c) \/ AskNode(c)
             \/ NodeEnds(c) \/ AskAgain(c) \/ (\E logs \in Receipt : ReceiptArrives(c, logs)) \/ Respond(c)
    BY <2>5 DEF Throws, Rejected, BadParameters, HandleLocal, AskNode, NodeEnds, AskAgain,
                ReceiptArrives, Respond
  <2> QED
    BY <1>3, <2>1, <2>2, <2>3, <2>4, <2>5 DEF HandlerStep
<1>4. ASSUME NEW c \in Client, ConnectionStep(c) PROVE [ExecNext]_execVars
  BY <1>4 DEF ConnectionStep, ExecNext, Caller
<1>5. ASSUME NEW t \in Timer, TimerStep(t) PROVE [ExecNext]_execVars
  BY <1>5 DEF TimerStep, ExecNext, Caller
<1>6. CASE ChainStep
  BY <1>6 DEF ChainStep, ExecNext
<1> QED
  BY <1>1, <1>2, <1>3, <1>4, <1>5, <1>6 DEF ServerNext

LEMMA RepliesGrow ==
  ASSUME BatchInv, NEW c \in Client, NEW outcome \in {"result", "error"}, Reply(c, outcome)
  PROVE  BatchInv'
<1>1. batch' = batch /\ replies' = [replies EXCEPT ![c] = Append(@, outcome)]
  BY DEF Reply
<1>2. Append(replies[c], outcome) \in Seq({"result", "error"})
  BY DEF BatchInv
<1> QED
  BY <1>1, <1>2 DEF BatchInv

LEMMA BatchStep ==
  ASSUME BatchInv, [ServerNext]_allVars
  PROVE  BatchInv'
<1>1. CASE UNCHANGED <<batch, replies>>
  BY <1>1 DEF BatchInv
<1>2. ASSUME NEW c \in Client, NEW p, NEW items \in Batch[c], Post(c, p, items) PROVE BatchInv'
  BY <1>2 DEF BatchInv, Post
<1>3. ASSUME NEW c \in Client, Respond(c) PROVE BatchInv'
  BY <1>3 DEF BatchInv, Respond
<1>4. ASSUME NEW c \in Client, HandlerStep(c), ~Respond(c) PROVE BatchInv'
  <2>1. \/ UNCHANGED <<batch, replies>>
        \/ Reply(c, "result") \/ Reply(c, "error")
    BY <1>4 DEF HandlerStep, Throws, Rejected, BadParameters, HandleSend, HandleSendBundleNow,
                HandleMode, HandleClear, HandleLocal, AskNode, NodeEnds, AskAgain,
                ReceiptArrives, Wait
  <2> QED
    BY <1>1, <2>1, RepliesGrow
<1>5. ASSUME NEW c \in Client, ConnectionStep(c) PROVE BatchInv'
  <2>1. \/ UNCHANGED <<batch, replies>>
        \/ Reply(c, "result") \/ Reply(c, "error")
    BY <1>5 DEF ConnectionStep, ExecReturns, ExecThrows, Wait, serverVars
  <2> QED
    BY <1>1, <2>1, RepliesGrow
<1> QED
  BY <1>1, <1>2, <1>3, <1>4, <1>5
     DEF ServerNext, TimerStep, ChainStep, allVars, serverVars

ServerInv == ExecInv /\ BatchInv

LEMMA ClearedKeeps ==
  ASSUME ExecInv, Cleared
  PROVE  ExecInv'
<1>1. SameOwed
  BY ChainStays DEF Cleared
<1> QED
  BY <1>1, RestKeeps DEF Cleared

LEMMA ServerStaysSound == ServerSpec => []ServerInv
<1>1. ServerInit => ServerInv
  BY InitExec DEF ServerInit, ServerInv, BatchInv
<1>2. ServerInv /\ [ServerNext]_allVars => ServerInv'
  BY ServerStepIsExecStep, BatchStep, ExecStep, ClearedKeeps DEF ServerInv
<1> QED
  BY <1>1, <1>2, PTL DEF ServerSpec

\* The same behind the server: whatever batches arrive at whatever connections,
\* and however often the debug methods empty the mempool, change the interval or
\* force a bundle (BundlerServer.ts:139-145, DebugMethodHandler.ts).
THEOREM ServedStayCovered ==
  ASSUME OneCost
  PROVE  ServerSpec => AdmissionCovered
<1>1. ASSUME ServerInv, ServerInv', [ServerNext]_allVars
      PROVE  [Admitted]_execVars
  <2>1. CASE [ExecNext]_execVars
    BY <1>1, <2>1, AddedAreCovered DEF ServerInv
  <2>2. CASE Cleared
    BY <2>2 DEF Cleared, Admitted
  <2> QED
    BY <1>1, <2>1, <2>2, ServerStepIsExecStep DEF ServerInv
<1>2. ServerSpec => [][Admitted]_execVars
  BY ServerStaysSound, <1>1, PTL DEF ServerSpec
<1>3. [][Admitted]_execVars => AdmissionCovered
  BY DEF Admitted, AdmissionCovered
<1> QED
  BY <1>2, <1>3

-----------------------------------------------------------------------------
(* The logs of a receipt                                                   *)

LEMMA GreatestIndex ==
  ASSUME NEW n \in Nat, NEW S \in SUBSET (1..n), S # {}
  PROVE  Max(S) \in S /\ \A y \in S : Max(S) >= y
<1> DEFINE B == {m \in Nat : \E x \in S : m = n - x}
<1>1. PICK m \in B : \A k \in B : ~(k < m)
  <2>1. B \in SUBSET Nat /\ B # {}
    <3>1. PICK x \in S : TRUE
      OBVIOUS
    <3>2. n - x \in Nat
      OBVIOUS
    <3> QED
      BY <3>1, <3>2
  <2> HIDE DEF B
  <2> QED
    BY <2>1, SmallestNumber
<1>2. PICK x \in S : m = n - x
  OBVIOUS
<1>3. \A y \in S : x >= y
  <2> SUFFICES ASSUME NEW y \in S PROVE x >= y
    OBVIOUS
  <2>1. n - y \in Nat
    OBVIOUS
  <2>2. ~(n - y < n - x)
    BY <1>1, <1>2, <2>1
  <2> QED
    BY <2>2
<1> HIDE DEF B
<1>4. \E z \in S : \A y \in S : z >= y
  BY <1>3
<1> QED
  BY <1>4 DEF Max

LEMMA LeastIndex ==
  ASSUME NEW n \in Nat, NEW S \in SUBSET (1..n), S # {}
  PROVE  Min(S) \in S /\ \A y \in S : Min(S) <= y
<1>1. PICK x \in S : \A y \in S : ~(y < x)
  BY SmallestNumber
<1>2. \A y \in S : x =< y
  BY <1>1
<1> QED
  BY <1>2 DEF Min

\* Sets in which the fold finds its way, as the indices of a sequence.
Ordered(S) == IsFiniteSet(S) /\ \A s \in SUBSET S : s # {} => Max(s) \in s

LEMMA IndicesOrdered ==
  ASSUME NEW n \in Nat
  PROVE  Ordered(1..n)
<1>1. IsFiniteSet(1..n)
  BY FS_Interval
<1> QED
  BY <1>1, GreatestIndex DEF Ordered

\* One turn of the loop of _filterLogs.
Turn(hash, logs, found, i) ==
  CASE logs[i].kind = "before" -> [start |-> i, end |-> i]
    [] logs[i].kind = "event" /\ logs[i].hash = hash -> [found EXCEPT !.end = i]
    [] logs[i].kind = "event" /\ logs[i].hash # hash /\ found.end = 0 ->
         [found EXCEPT !.start = i]
    [] OTHER -> found

Nothing == [start |-> 0, end |-> 0]

\* What the loop has found after the logs of a set of indices.
Scans(hash, logs, S, h) ==
  h = [s \in SUBSET S |-> IF s = {} THEN Nothing
                          ELSE Turn(hash, logs, h[s \ {Max(s)}], Max(s))]

LEMMA ScansStep ==
  ASSUME NEW hash, NEW logs, NEW S, NEW h, Scans(hash, logs, S, h), NEW s \in SUBSET S
  PROVE  h[s] = IF s = {} THEN Nothing ELSE Turn(hash, logs, h[s \ {Max(s)}], Max(s))
BY DEF Scans

LEMMA ScansAgree ==
  ASSUME NEW hash, NEW logs, NEW S, Ordered(S), NEW T \in SUBSET S,
         NEW g, NEW h, Scans(hash, logs, S, g), Scans(hash, logs, T, h)
  PROVE  g[T] = h[T]
<1> DEFINE B == {s \in SUBSET T : g[s] # h[s]}
<1>1. SUFFICES ASSUME B # {} PROVE FALSE
  OBVIOUS
<1>2. IsFiniteSet(T)
  BY FS_Subset DEF Ordered
<1>3. PICK s \in B : \A u \in B : ~(u \subseteq s /\ u # s)
  <2>1. B \in SUBSET SUBSET T
    OBVIOUS
  <2> HIDE DEF B
  <2> QED
    BY <1>1, <1>2, <2>1, SmallestSet
<1>4. s \in SUBSET T /\ s \in SUBSET S /\ g[s] # h[s]
  OBVIOUS
<1>5. s # {}
  BY <1>4, ScansStep
<1>6. Max(s) \in s
  BY <1>4, <1>5 DEF Ordered
<1>7. g[s \ {Max(s)}] = h[s \ {Max(s)}]
  BY <1>3, <1>6
<1> HIDE DEF B
<1>8. g[s] = IF s = {} THEN Nothing ELSE Turn(hash, logs, g[s \ {Max(s)}], Max(s))
  BY <1>4, ScansStep
<1>9. h[s] = IF s = {} THEN Nothing ELSE Turn(hash, logs, h[s \ {Max(s)}], Max(s))
  BY <1>4, ScansStep
<1> QED
  BY <1>4, <1>5, <1>7, <1>8, <1>9

LEMMA ScansExists ==
  ASSUME NEW hash, NEW logs, NEW S, Ordered(S)
  PROVE  \E h : Scans(hash, logs, S, h)
<1> DEFINE B == {s \in SUBSET S : ~ \E h : Scans(hash, logs, s, h)}
<1>1. SUFFICES ASSUME B # {} PROVE FALSE
  OBVIOUS
<1>2. PICK t \in B : \A u \in B : ~(u \subseteq t /\ u # t)
  <2>1. B \in SUBSET SUBSET S /\ IsFiniteSet(S)
    BY DEF Ordered
  <2> HIDE DEF B
  <2> QED
    BY <1>1, <2>1, SmallestSet
<1>0. t \in SUBSET S /\ ~ \E h : Scans(hash, logs, t, h)
  OBVIOUS
<1> DEFINE H(s) == CHOOSE h : Scans(hash, logs, s, h)
           below(s) == IF s = {} THEN Nothing
                       ELSE Turn(hash, logs, H(s \ {Max(s)})[s \ {Max(s)}], Max(s))
           g == [s \in SUBSET t |-> below(s)]
<1>3. \A s \in SUBSET t : s # t => Scans(hash, logs, s, H(s))
  BY <1>2
<1>4. \A s \in SUBSET t : s # {} => Max(s) \in s
  BY <1>0 DEF Ordered
<1>5. \A s \in SUBSET t : s # t => g[s] = H(s)[s]
  <2> SUFFICES ASSUME NEW s \in SUBSET t, s # t PROVE g[s] = H(s)[s]
    OBVIOUS
  <2>1. Scans(hash, logs, s, H(s))
    BY <1>3
  <2>2. CASE s = {}
    BY <2>1, <2>2, ScansStep
  <2>3. CASE s # {}
    <3> DEFINE r == s \ {Max(s)}
    <3>1. r \in SUBSET t /\ r # t /\ r \in SUBSET s /\ Ordered(s)
      BY <1>0, <1>4, <2>3, FS_Subset DEF Ordered
    <3>2. Scans(hash, logs, r, H(r))
      BY <1>3, <3>1
    <3> HIDE DEF r
    <3>3. H(s)[r] = H(r)[r]
      BY <2>1, <3>1, <3>2, ScansAgree
    <3>4. H(s)[s] = Turn(hash, logs, H(s)[r], Max(s))
      BY <2>1, <2>3, ScansStep DEF r
    <3>5. g[s] = Turn(hash, logs, H(r)[r], Max(s))
      BY <2>3 DEF r
    <3> QED
      BY <3>3, <3>4, <3>5
  <2> QED
    BY <2>2, <2>3
<1>6. Scans(hash, logs, t, g)
  <2>1. ASSUME NEW s \in SUBSET t
        PROVE  below(s) = IF s = {} THEN Nothing
                          ELSE Turn(hash, logs, g[s \ {Max(s)}], Max(s))
    <3>1. CASE s = {}
      BY <3>1
    <3>2. CASE s # {}
      <4> DEFINE r == s \ {Max(s)}
      <4>1. r \in SUBSET t /\ r # t
        BY <1>4, <3>2
      <4>2. g[r] = H(r)[r]
        BY <1>5, <4>1
      <4> HIDE DEF g
      <4> QED
        BY <3>2, <4>2
    <3> QED
      BY <3>1, <3>2
  <2>2. g = [s \in SUBSET t |-> below(s)]
    OBVIOUS
  <2> HIDE DEF g, below
  <2> QED
    BY <2>1, <2>2 DEF Scans
<1> QED
  BY <1>0, <1>6

\* The fold of the model, turn by turn.
LEMMA ScanByTurns ==
  ASSUME NEW hash, NEW n \in Nat, NEW logs, DOMAIN logs = 1..n
  PROVE  \E h : /\ Scan(hash, logs) = h[1..n]
                /\ h[1..0] = Nothing
                /\ \A i \in 1..n : h[1..i] = Turn(hash, logs, h[1..(i - 1)], i)
<1> DEFINE S == DOMAIN [i \in 1..n |-> i]
           Folds(h) ==
             h = [s \in SUBSET S |->
                    IF s = {} THEN Nothing
                    ELSE Turn(hash, logs, h[s \ {Max(s)}], [i \in 1..n |-> i][Max(s)])]
           table == CHOOSE h : Folds(h)
<1>1. Scan(hash, logs) = table[S]
  BY DEF Scan, FoldLeftDomain, FoldLeft, MapThenFoldSet, Turn, Nothing
<1>2. S = 1..n
  OBVIOUS
<1> HIDE DEF S
<1>3. ASSUME NEW h PROVE Folds(h) <=> Scans(hash, logs, 1..n, h)
  <2>1. \A s \in SUBSET (1..n) : s # {} => [i \in 1..n |-> i][Max(s)] = Max(s)
    BY GreatestIndex
  <2>2. \A s \in SUBSET (1..n) :
          (IF s = {} THEN Nothing
           ELSE Turn(hash, logs, h[s \ {Max(s)}], [i \in 1..n |-> i][Max(s)]))
          = (IF s = {} THEN Nothing ELSE Turn(hash, logs, h[s \ {Max(s)}], Max(s)))
    BY <2>1
  <2> QED
    BY <1>2, <2>2, Zenon DEF Scans
<1> HIDE DEF Folds
<1>4. PICK g : Scans(hash, logs, 1..n, g)
  BY IndicesOrdered, ScansExists
<1>5. Scans(hash, logs, 1..n, table)
  BY <1>3, <1>4
<1> HIDE DEF table
<1>6. 1..0 = {}
  OBVIOUS
<1>7. table[1..0] = Nothing
  BY <1>5, <1>6, ScansStep
<1>8. ASSUME NEW i \in 1..n PROVE table[1..i] = Turn(hash, logs, table[1..(i - 1)], i)
  <2>1. 1..i \in SUBSET (1..n) /\ 1..i # {} /\ i \in 1..i
    OBVIOUS
  <2>2. Max(1..i) \in 1..i /\ \A y \in 1..i : Max(1..i) >= y
    BY <2>1, GreatestIndex
  <2>3. Max(1..i) = i
    BY <2>1, <2>2
  <2>4. (1..i) \ {i} = 1..(i - 1)
    OBVIOUS
  <2>5. PICK s \in SUBSET (1..n) :
          s = 1..i /\ s # {} /\ Max(s) = i /\ s \ {Max(s)} = 1..(i - 1)
    BY <2>1, <2>3, <2>4
  <2>6. table[s] = Turn(hash, logs, table[s \ {Max(s)}], Max(s))
    <3>1. PICK indices : indices = 1..n /\ s \in SUBSET indices
      BY <2>5
    <3>2. table[s] = IF s = {} THEN Nothing
                     ELSE Turn(hash, logs, table[s \ {Max(s)}], Max(s))
      <4>1. Scans(hash, logs, indices, table)
        BY <1>5, <3>1
      <4> QED
        BY <3>1, <4>1 DEF Scans
    <3> QED
      BY <2>5, <3>2
  <2> QED
    BY <2>5, <2>6, Zenon
<1>9. Scan(hash, logs) = table[1..n]
  BY <1>1, <1>2
<1> QED
  BY <1>7, <1>8, <1>9, Zenon

\* The logs of one handleOps: BeforeExecution comes before every event, and the
\* operations have hashes of their own (MethodHandlerERC4337.ts:216-231).
OneBundle(logs) ==
  /\ \A i, j \in DOMAIN logs : i < j /\ logs[i].kind = "event" => logs[j].kind # "before"
  /\ \A i, j \in DOMAIN logs :
       logs[i].kind = "event" /\ logs[j].kind = "event" /\ logs[i].hash = logs[j].hash => i = j

\* The loop ends at the event of the operation, and has not begun after the
\* event or marker before it.
LEMMA ScanFinds ==
  ASSUME NEW hash, NEW n \in Nat, NEW logs, DOMAIN logs = 1..n, OneBundle(logs),
         NEW k \in 1..n, logs[k].kind = "event", logs[k].hash = hash
  PROVE  \E s \in 0..(k - 1) : /\ Scan(hash, logs) = [start |-> s, end |-> k]
                               /\ s = 0 \/ logs[s].kind # "other"
<1>1. PICK h : /\ Scan(hash, logs) = h[1..n]
               /\ h[1..0] = Nothing
               /\ \A i \in 1..n : h[1..i] = Turn(hash, logs, h[1..(i - 1)], i)
  BY ScanByTurns
<1> DEFINE F(m) == h[1..m]
           Good(m) == \E s \in 0..(k - 1), e \in Nat :
                        /\ F(m) = [start |-> s, end |-> e]
                        /\ s = 0 \/ logs[s].kind # "other"
                        /\ m >= k => e = k
           Bad == {m \in Nat : m <= n /\ ~Good(m)}
<1>2. F(0) = [start |-> 0, end |-> 0]
  BY <1>1 DEF Nothing
<1>3. \A i \in 1..n : F(i) = Turn(hash, logs, F(i - 1), i)
  BY <1>1
<1> HIDE DEF F
<1>4. Good(0)
  BY <1>2
<1>5. ASSUME NEW m \in Nat, m <= n, m # 0, Good(m - 1) PROVE Good(m)
  <2>1. PICK s \in 0..(k - 1), e \in Nat :
          /\ F(m - 1) = [start |-> s, end |-> e]
          /\ s = 0 \/ logs[s].kind # "other"
          /\ m - 1 >= k => e = k
    BY <1>5
  <2>2. F(m) = Turn(hash, logs, [start |-> s, end |-> e], m) /\ m \in 1..n
    BY <1>3, <1>5, <2>1
  <2>3. CASE logs[m].kind = "before"
    <3>1. F(m) = [start |-> m, end |-> m]
      BY <2>2, <2>3 DEF Turn
    <3>2. m < k
      BY <2>2, <2>3 DEF OneBundle
    <3>3. m \in 0..(k - 1) /\ logs[m].kind # "other"
      BY <2>2, <2>3, <3>2
    <3>4. PICK last \in Nat : last = m /\ (m >= k => last = k)
      BY <3>2
    <3> QED
      BY <3>1, <3>3, <3>4
  <2>4. CASE logs[m].kind = "event" /\ logs[m].hash = hash
    <3>1. m = k
      BY <2>2, <2>4 DEF OneBundle
    <3>2. F(m) = [start |-> s, end |-> m]
      BY <2>2, <2>4 DEF Turn
    <3> QED
      BY <2>1, <3>1, <3>2
  <2>5. CASE logs[m].kind = "event" /\ logs[m].hash # hash /\ e = 0
    <3>1. F(m) = [start |-> m, end |-> e]
      BY <2>2, <2>5 DEF Turn
    <3>2. m < k
      <4>1. m # k /\ ~(m - 1 >= k)
        BY <2>1, <2>5
      <4> QED
        BY <4>1
    <3>3. m \in 0..(k - 1) /\ logs[m].kind # "other"
      BY <2>2, <2>5, <3>2
    <3> QED
      BY <3>1, <3>2, <3>3
  <2>6. CASE /\ logs[m].kind # "before"
             /\ ~(logs[m].kind = "event" /\ logs[m].hash = hash)
             /\ ~(logs[m].kind = "event" /\ logs[m].hash # hash /\ e = 0)
    <3>1. F(m) = [start |-> s, end |-> e]
      BY <2>2, <2>6 DEF Turn
    <3>2. m # k
      BY <2>6
    <3>3. m >= k => e = k
      BY <2>1, <3>2
    <3> QED
      BY <2>1, <3>1, <3>3
  <2> QED
    BY <2>3, <2>4, <2>5, <2>6
<1>6. Good(n)
  <2> HIDE DEF Good
  <2>1. SUFFICES ASSUME Bad # {} PROVE FALSE
    OBVIOUS
  <2>2. PICK m \in Bad : \A j \in Bad : ~(j < m)
    <3>1. Bad \in SUBSET Nat
      OBVIOUS
    <3> HIDE DEF Bad
    <3> QED
      BY <2>1, <3>1, SmallestNumber
  <2>3. m # 0
    BY <1>4
  <2>4. m - 1 \in Nat /\ m - 1 <= n /\ m - 1 < m
    BY <2>3
  <2>5. Good(m - 1)
    BY <2>2, <2>4
  <2> QED
    BY <1>5, <2>3, <2>5
<1> QED
  BY <1>1, <1>6 DEF F

LEMMA SliceIsSuffix ==
  ASSUME NEW Log, NEW logs \in Seq(Log), NEW k \in 1..Len(logs),
         NEW b \in 0..(k - 1), NEW s \in 0..b
  PROVE  IsSuffix(SubSeq(logs, b + 1, k - 1), SubSeq(logs, s + 1, k - 1))
<1> DEFINE Back(m) == [i \in 1..(k - 1 - m) |-> logs[k - i]]
<1>1. ASSUME NEW m \in 0..(k - 1)
      PROVE  /\ Reverse(SubSeq(logs, m + 1, k - 1)) = Back(m)
             /\ Back(m) \in Seq(Log) /\ Len(Back(m)) = k - 1 - m
  <2>1. /\ Len(SubSeq(logs, m + 1, k - 1)) = k - 1 - m
        /\ \A i \in 1..(k - 1 - m) : SubSeq(logs, m + 1, k - 1)[i] = logs[m + i]
    OBVIOUS
  <2>2. \A i \in 1..(k - 1 - m) :
          SubSeq(logs, m + 1, k - 1)[(k - 1 - m) - i + 1] = logs[k - i]
    BY <2>1
  <2>3. Reverse(SubSeq(logs, m + 1, k - 1)) = Back(m)
    BY <2>1, <2>2 DEF Reverse
  <2>4. \A i \in 1..(k - 1 - m) : logs[k - i] \in Log
    OBVIOUS
  <2>5. Back(m) \in Seq(Log) /\ Len(Back(m)) = k - 1 - m
    BY <2>4
  <2> QED
    BY <2>3, <2>5
<1>2. /\ Back(b) \in Seq(Log) /\ Len(Back(b)) = k - 1 - b
      /\ Back(s) \in Seq(Log) /\ Len(Back(s)) = k - 1 - s
      /\ k - 1 - b <= k - 1 - s
  BY <1>1
<1>3. \A i \in 1..(k - 1 - b) : Back(b)[i] = Back(s)[i]
  BY <1>2
<1> HIDE DEF Back
<1>4. SubSeq(Back(b), 1, k - 1 - b) = SubSeq(Back(s), 1, k - 1 - b)
  BY <1>2, <1>3
<1>5. IsPrefix(Back(b), Back(s))
  BY <1>2, <1>4 DEF IsPrefix
<1> QED
  BY <1>1, <1>5 DEF IsSuffix

\* A mark before the event is not after the last mark before it.
LEMMA OwnLogsFound ==
  ASSUME NEW Log, NEW logs \in Seq(Log), OneBundle(logs), NEW hash, NEW i \in DOMAIN logs,
         logs[i].kind = "event", logs[i].hash = hash
  PROVE  IsSuffix(OwnLogs(hash, logs), FilterLogs(hash, logs))
<1> DEFINE n == Len(logs)
           Marks(seq) == {j \in 1..Len(seq) : seq[j].kind # "other"}
           Events == {j \in 1..Len(logs) : logs[j].kind = "event" /\ logs[j].hash = hash}
           before == SubSeq(logs, 1, i - 1)
           own == IF Events # {} THEN Min(Events) ELSE 0
           last == IF Marks(before) # {} THEN Max(Marks(before)) ELSE 0
<1>1. n \in Nat /\ DOMAIN logs = 1..n /\ i \in 1..n
  OBVIOUS
<1>2. PICK s \in 0..(i - 1) : /\ Scan(hash, logs) = [start |-> s, end |-> i]
                              /\ s = 0 \/ logs[s].kind # "other"
  BY <1>1, ScanFinds
<1>3. FilterLogs(hash, logs) = SubSeq(logs, s + 1, i - 1)
  BY <1>2 DEF FilterLogs
<1>4. own = i
  <2>1. \A j \in Events : j = i
    BY <1>1 DEF OneBundle
  <2>2. i \in Events /\ Events \in SUBSET (1..n)
    BY <1>1
  <2> HIDE DEF Events
  <2>3. Min(Events) \in Events
    BY <1>1, <2>2, LeastIndex
  <2> QED
    BY <2>1, <2>2, <2>3
<1>5. OwnLogs(hash, logs)
        = SubSeq(logs, (IF Marks(SubSeq(logs, 1, own - 1)) # {}
                        THEN Max(Marks(SubSeq(logs, 1, own - 1))) ELSE 0) + 1, own - 1)
  BY DEF OwnLogs, SelectInSeq, SelectLastInSeq
<1>6. OwnLogs(hash, logs) = SubSeq(logs, last + 1, i - 1)
  BY <1>4, <1>5
<1>7. Len(before) = i - 1 /\ \A j \in 1..(i - 1) : before[j] = logs[j]
  BY <1>1
<1>8. Marks(before) \in SUBSET (1..(i - 1)) /\ i - 1 \in Nat
      /\ (s # 0 => s \in Marks(before))
  BY <1>1, <1>2, <1>7
<1> HIDE DEF Marks, before
<1>9. last \in 0..(i - 1) /\ s \in 0..last
  <2>1. CASE Marks(before) = {}
    BY <1>1, <1>8, <2>1
  <2>2. CASE Marks(before) # {}
    <3>1. Max(Marks(before)) \in Marks(before) /\ \A y \in Marks(before) : Max(Marks(before)) >= y
      BY <1>8, <2>2, GreatestIndex
    <3>2. PICK m : m = Max(Marks(before)) /\ last = m
      BY <2>2
    <3>3. m \in 1..(i - 1) /\ (s # 0 => m >= s)
      BY <1>8, <3>1, <3>2
    <3> QED
      BY <1>1, <3>2, <3>3
  <2> QED
    BY <2>1, <2>2
<1> HIDE DEF last
<1> QED
  BY <1>1, <1>3, <1>6, <1>9, SliceIsSuffix

\* The answer to eth_getUserOperationReceipt ends with all the logs of the
\* operation, for every receipt of one handleOps (MethodHandlerERC4337.ts:216-248):
\* the loop over the logs is followed turn by turn.
THEOREM OwnLogsStay ==
  ASSUME \A logs \in Receipt : OneBundle(logs)
  PROVE  ServerSpec => OwnLogsKept
<1> DEFINE Kept == \A c \in Client, logs \in Receipt :
                     ReceiptArrives(c, logs) => IsSuffix(OwnLogs(Current(c).hash, logs), shown')
<1>1. Kept
  <2> SUFFICES ASSUME NEW c \in Client, NEW logs \in Receipt, ReceiptArrives(c, logs)
               PROVE  IsSuffix(OwnLogs(Current(c).hash, logs), shown')
    OBVIOUS
  <2>1. PICK i \in DOMAIN logs : logs[i].kind = "event" /\ logs[i].hash = Current(c).hash
    BY DEF ReceiptArrives
  <2>2. shown' = FilterLogs(Current(c).hash, logs)
    BY DEF ReceiptArrives
  <2>3. logs \in Seq(Range(logs))
    BY ServerAssumption
  <2> QED
    BY <2>1, <2>2, <2>3, OwnLogsFound
<1>2. [ServerNext]_allVars => [Kept]_allVars
  BY <1>1
<1> HIDE DEF Kept
<1>3. ServerSpec => [][Kept]_allVars
  BY <1>2, PTL DEF ServerSpec
<1> QED
  BY <1>3 DEF OwnLogsKept, Kept
=============================================================================
