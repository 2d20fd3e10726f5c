------------------------------ MODULE MCErc7562 ------------------------------
(* Instances of Erc7562 for TLC.                                           *)
EXTENDS Erc7562

MCEntryPoint == 1001
MCSenderCreator == 1002
Sender == 1003
Factory == 1004
Paymaster == 1005
Token == 1006
Undeployed == 1007
SenderHash == 5000      \* keccak(Sender || ...)
PaymasterHash == 6000

Call(parent, from, to) ==
  [parent |-> parent, from |-> from, to |-> to, type |-> "CALL", method |-> "0x", value |-> 0,
   opcodes |-> {}, outOfGas |-> FALSE, codeless |-> {}, accessed |-> {}, extCode |-> {},
   reads |-> {}, writes |-> {}]

\* A call by an entity, with at most one thing about it that a rule may forbid.
Inner(parent, from) ==
  LET f == Call(parent, from, Token)
      own == Call(parent, from, from)
  IN  {f, [f EXCEPT !.type = "CREATE"], [f EXCEPT !.type = "CREATE2"],
       [f EXCEPT !.to = Sender, !.type = "CREATE2"], [f EXCEPT !.outOfGas = TRUE],
       [f EXCEPT !.opcodes = {"GAS"}], [f EXCEPT !.opcodes = {"BALANCE", "ADD"}],
       [f EXCEPT !.value = 1], [f EXCEPT !.to = MCEntryPoint, !.value = 1],
       [f EXCEPT !.to = MCEntryPoint, !.method = "withdrawTo"],
       [f EXCEPT !.extCode = {MCEntryPoint}], [f EXCEPT !.codeless = {Undeployed}, !.accessed = {Undeployed}],
       [f EXCEPT !.codeless = {Sender, 5}, !.accessed = {Sender, 5, 9}], [f EXCEPT !.accessed = {10}]}
      \union {[f EXCEPT !.reads = {slot}] : slot \in
                {0, Sender, SenderHash, SenderHash + 127, SenderHash + 128, PaymasterHash + 1}}
      \union {[f EXCEPT !.writes = {slot}] : slot \in {Sender, SenderHash + 1, PaymasterHash}}
      \union {[own EXCEPT !.reads = {0}], [own EXCEPT !.writes = {0}]}
      \union {[Call(parent, from, code) EXCEPT !.type = "DELEGATECALL", !.reads = {slot}] :
                code \in {Token, Sender}, slot \in {0, SenderHash}}

\* The EntryPoint creates the account, validates it, asks the paymaster, and
\* calls itself; one of the entities calls out, and the callee calls on or
\* the entity calls once more.
Creation == <<Call(1, MCEntryPoint, MCSenderCreator), Call(2, MCSenderCreator, Factory),
              [Call(3, Factory, Sender) EXCEPT !.type = "CREATE2"]>>
Top == <<Call(0, Zero, MCEntryPoint)>>
Validation == <<Call(1, MCEntryPoint, Sender)>>
Sponsoring == <<Call(1, MCEntryPoint, Paymaster)>>
Self(n) == <<Call(1, MCEntryPoint, MCEntryPoint), Call(n, MCEntryPoint, Token)>>
Context(x) == IF x.type = "DELEGATECALL" THEN x.from ELSE Token
On(n, x) == <<Call(n, Context(x), Paymaster)>>
Reading(n, x) == <<[Call(n, Context(x), Paymaster) EXCEPT !.reads = {Sender}]>>

Frames ==
  { Top \o Creation \o <<x>> \o On(5, x) \o Validation \o Sponsoring : x \in Inner(3, Factory) }
  \union { Top \o Creation \o Validation \o <<x>> \o On(6, x) \o Sponsoring : x \in Inner(5, Sender) }
  \union { Top \o Validation \o <<x>> \o Reading(3, x) \o Self(5) : x \in Inner(2, Sender) }
  \union { Top \o Validation \o Sponsoring \o <<x>> \o Reading(4, x) \o Self(6) :
             x \in Inner(3, Paymaster) }
  \union { Top \o Validation \o <<Call(2, Sender, Token), Call(3, Token, Paymaster), x>> \o Sponsoring :
             x \in Inner(2, Sender) }
  \union { Top, Top \o <<Call(1, MCEntryPoint, Token)>> }

MCTrace ==
  { [sender |-> Sender,
     factory |-> IF \E i \in DOMAIN frames : frames[i].to = Factory THEN Factory ELSE Absent,
     paymaster |-> IF \E i \in DOMAIN frames : frames[i].from = MCEntryPoint
                                                 /\ frames[i].to = Paymaster
                   THEN Paymaster ELSE Absent,
     staked |-> [account |-> FALSE, factory |-> f, paymaster |-> p],
     context |-> p, keccak |-> {<<Sender, SenderHash>>, <<Paymaster, PaymasterHash>>},
     frames |-> frames] :
      frames \in Frames, f \in BOOLEAN, p \in BOOLEAN }
  \union
  { [sender |-> Sender, factory |-> Absent, paymaster |-> Paymaster,
     staked |-> [account |-> a, factory |-> FALSE, paymaster |-> FALSE],
     context |-> c, keccak |-> {<<Sender, SenderHash>>},
     frames |-> Top \o Validation \o <<x>> \o Sponsoring] :
      a \in BOOLEAN, c \in BOOLEAN, x \in Inner(2, Sender) }
=============================================================================
