---------------------------- MODULE MCReputation ----------------------------
(* Instances of Reputation for TLC.  An address is written as a number and *)
(* its checksummed spelling as the number plus 100.                        *)
EXTENDS Reputation

MCLower == [a \in Spelling |-> IF a > 100 THEN a - 100 ELSE a]
=============================================================================
