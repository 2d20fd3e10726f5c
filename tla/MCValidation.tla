---------------------------- MODULE MCValidation ----------------------------
(* Mainnet's configuration; operations of every shape.                      *)
EXTENDS Validation

MCConfig == [stipend |-> 21000, fixed |-> 9830, perOp |-> 7260,
             wordUnits |-> 3040, execute |-> 1610, executeByteUnits |-> 82,
             tokenGas |-> 4, floorGas |-> 10, tokensPerByte |-> 4,
             authGas |-> 25000, bundleSize |-> 1]

Auth(chain, signer) == [chain |-> chain, signer |-> signer]

\* A small operation with enough gas.
Plain == [zero |-> 300, nonzero |-> 200, callWords |-> 3, executes |-> FALSE,
          auth |-> FALSE, execGas |-> 50000, pvg |-> 80000, limits |-> 100000,
          factory |-> "none", data |-> "none", paymaster |-> "none",
          auths |-> <<>>]

Sponsored == [Plain EXCEPT !.paymaster = "whole"]

Delegated == [Sponsored EXCEPT !.factory = "marker", !.data = "some",
                               !.auth = TRUE, !.auths = <<Auth("any", "sender")>>]

\* So much data that EIP-7623's floor counts.
Bulky == [Plain EXCEPT !.nonzero = 3000, !.pvg = 120000, !.executes = TRUE,
                       !.limits = 400000]

\* So much that the floor counts even with the gas that is supposed early;
\* its simulation may use more than that.
Huge == [Bulky EXCEPT !.nonzero = 30000, !.pvg = 800000, !.limits = 900000]
Refused == [Huge EXCEPT !.pvg = 600000]

MCOps ==
  {Plain, Sponsored, Delegated, Bulky, Huge, Refused,
   [Sponsored EXCEPT !.factory = "contract", !.data = "some"],
   [Delegated EXCEPT !.data = "none"],
   [Plain EXCEPT !.pvg = 30000],
   [Plain EXCEPT !.data = "some"],
   [Bulky EXCEPT !.pvg = 60000],
   [Sponsored EXCEPT !.paymaster = "gasless"],
   [Delegated EXCEPT !.auths = <<Auth("other", "sender")>>],
   [Delegated EXCEPT !.auths = <<Auth("own", "other")>>]}

MCEmptyData == {[Delegated EXCEPT !.data = "0x"]}
MCPlain == {Plain}
MCEstimated == {Plain, Refused}

MCWindows == {[after |-> 0, until |-> 0], [after |-> 0, until |-> 3],
              [after |-> 1, until |-> 0], [after |-> 0, until |-> 1]}
=============================================================================
