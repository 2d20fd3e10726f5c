\* A request, a forced attempt and a builder, in every mode.
SPECIFICATION RipFairSpec
CONSTANTS
  UserOp <- MCPair
  Requests = {r1}
  Timer = {t1}
  Puller = {b1}
  Modes <- MCModes
  MaxSent = 2
INVARIANT HandedOutRemembered
PROPERTY HandedOutLeaves
