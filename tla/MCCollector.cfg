SPECIFICATION CollectorSpec
CONSTANTS
  EntryPoint = EntryPoint
  SenderCreator = SenderCreator
  Sender = Sender
  Factory = Factory
  Paymaster = Paymaster
  Token = Token
  Ghost = Ghost
  Simple = {"NUMBER", "BALANCE", "GAS", "ISZERO"}
  Methods = {"0x", "0xcalldata"}
  Slots <- MCSlots
  Accesses = {"SLOAD", "SSTORE", "TSTORE"}
  MaxSteps = 3
INVARIANTS AcceptedStepsObeyRules LawfulIsAccepted ReferencedIsComplete
CHECK_DEADLOCK FALSE
