SPECIFICATION FairSpec
CONSTANTS
  NoKey = NoKey
  NoItem = NoItem
  NoConn = NoConn
  Facts = {f1, f2}
  Signals = {}
  Keys = {}
  CompactEvery = 2
  LegacyMsgs = {}
  CrashPoints <- StrictPoints
  IOFaults = {}
  MaxCrashes = 1
  Conns = {c1}
  BatchSize = 1
CHECK_DEADLOCK FALSE
PROPERTY AcceptedIsDelivered
