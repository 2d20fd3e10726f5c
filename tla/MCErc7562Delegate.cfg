\* Code that an entity delegates to touches the entity's storage.
SPECIFICATION ParserSpec
CONSTANTS
  EntryPoint <- MCEntryPoint
  SenderCreator <- MCSenderCreator
  NonceManager = Absent
  Absent = Absent
  Trace <- MCTrace
INVARIANT DelegatedTouchSenderOnly
