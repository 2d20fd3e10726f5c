SPECIFICATION CollectorSpec
CONSTANTS
  EntryPoint = EntryPoint
  SenderCreator = SenderCreator
  Sender = Sender
  Factory = Factory
  Paymaster = Paymaster
  Token = Token
  Ghost = Ghost
  Simple = {"GAS", "CALLER"}
  Methods = {"0x", "0xb760faf9"}
  Slots <- MCSlots
  Accesses = {"SLOAD", "SSTORE", "TSTORE"}
  MaxSteps = 2
INVARIANTS AcceptedStepsObeyRules LawfulIsAccepted EntitiesReferenced
CHECK_DEADLOCK FALSE
