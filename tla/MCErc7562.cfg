\* Any number of calls, each with any of the traces.
SPECIFICATION ParserSpec
CONSTANTS
  EntryPoint <- MCEntryPoint
  SenderCreator <- MCSenderCreator
  NonceManager = Absent
  Absent = Absent
  Trace <- MCTrace
INVARIANTS VerdictIsRight UnstakedTouchSenderOnly OnlySenderDeployed StakeOnlyHelps
