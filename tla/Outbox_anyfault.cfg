SPECIFICATION Spec
CONSTANTS
  NoKey = NoKey
  NoItem = NoItem
  Facts = {f1, f2}
  Signals = {}
  Keys = {k1}
  CompactEvery = 2
  LegacyMsgs = {f1}
  CrashPoints <- AllPoints
  IOFaults = {"append", "rename", "open", "meta"}
  MaxCrashes = 1
INVARIANT TypeOK
PROPERTY FactsLeaveByAckOnly
CHECK_DEADLOCK FALSE
